---- MODULE Spec2Model ----
(***************************************************************************)
(* Obligation simulation (dkoepsell/Simulating-Obligations).               *)
(*                                                                         *)
(* The model follows src/sketch.js (draw loop, generation boundary, GUI    *)
(* callbacks), src/agent.js (Agent, ObligationVector) and src/norms.js     *)
(* (norm registry, defaultEnforce).                                        *)
(*                                                                         *)
(* Numbers: probabilities and random() draws are in percent (0..99),       *)
(* animation progress animT is in units of 1/animOne, distances are in     *)
(* pixels along one axis.  Rendering state (colours, trails) and flocking  *)
(* forces are left out; agent.update() is a nondeterministic move.         *)
(***************************************************************************)
EXTENDS Integers, Sequences, FiniteSets, TLC

(* ---------------- bounds of the model ---------------------------------- *)
MaxFrames == 5          \* frames drawn in a behaviour of Spec
MaxAgentIndex == 2      \* ids handed out in Spec (0..MaxAgentIndex-1)
MaxAddedNorms == 1      \* norms added through the advanced panel
MaxMutations == 0       \* draws of a child that fall to mutation
MaxDrifts == 0          \* agents whose preference drifts in one generation
MaxGenerations == 1     \* generation boundaries in a behaviour of Spec

(* ---------------- configuration (SIM_CONFIG) --------------------------- *)
numAgents == 2
generationInterval == 3
countMultiplier == 2
maxVectors == 1
expirationBase == 1
expirationRandom == 2
proximityThreshold == 150
trustIncrement == 2
trustDecrement == 1
animOne == 3
spawnJitter == 1
repairChance == 10
reproductionChance == 25
populationCapFactor == 2
deathBaseRate == 5
deathConflictWeight == 1
deathConflictCap == 10
deathOldAgeBoost == 5
deathAgeThreshold == 5
hostileThreshold2 == 1  \* twice the hostile threshold 0.5
mergeThreshold == 3

builtinNorms == <<"legal", "care">>
AnimSpeeds == {1}
Strengths == {60}
Rand == {0, 99}
Positions == {200, 400}
AddableNames == {"undefined"}
InitAcks == {<<{"legal", "care"}, {"legal"}>>, <<{"legal"}, {}>>}
InitPrefs == {<<"legal">>}

(* the scenario presets of the model, in the key order of SCENARIO_FUNCTIONS *)
SCENARIO_NAMES == <<"pluralist", "allCare">>

(* the toggle combinations of window.startBatch *)
combos ==
  <<[enableMoralRepair |-> TRUE, enableDirectedEmergence |-> FALSE,
     enableNonReciprocalTargeting |-> FALSE],
    [enableMoralRepair |-> FALSE, enableDirectedEmergence |-> TRUE,
     enableNonReciprocalTargeting |-> FALSE],
    [enableMoralRepair |-> TRUE, enableDirectedEmergence |-> TRUE,
     enableNonReciprocalTargeting |-> TRUE]>>

(* JS undefined, as read from a property the object does not have *)
undefined == "<undefined>"

VARIABLES
  agents,             \* the agents array: sequence of ids
  agent,              \* id -> fields of the Agent object
  globalAgentIndex,
  obligationVectors,  \* sequence of ObligationVector objects
  obligationLog,
  generation,
  generationTimer,
  frameCount,
  normTypes,          \* SIM_CONFIG.normTypes
  normRegistry,       \* the registry object: name -> definition
  validationMode,
  isPaused,
  running,
  pc,                 \* 0: between frames; i >= 1: draw() is about to enforce vector i
  fault,              \* an exception escaped from draw()
  issued,             \* history: id -> outcomes of the obligations the agent issued
  SIM_CONFIG,         \* the settings the advanced panel and batch runs read or write
  canvas,             \* the coordinates an agent can be placed at
  scenario,
  enableMoralRepair,
  hostilePairs,
  log,                \* the metrics log
  agentLog,
  falsifyFlags,       \* the falsifiability flags of the acknowledgment monitor
  batchMode,
  batchIndex,
  batchTotalRuns,
  batchGenerations,
  batchRunsSequence,
  reps,               \* history: the repetitions of the last startBatch
  initialCount        \* history: agents created by the last initializeAgents

simVars == <<agents, agent, globalAgentIndex, obligationVectors, obligationLog,
             generation, generationTimer, issued, hostilePairs, log, agentLog,
             falsifyFlags, initialCount>>
normVars == <<normTypes, normRegistry>>
modeVars == <<validationMode, isPaused, running>>
setupVars == <<SIM_CONFIG, canvas>>
batchVars == <<batchMode, batchIndex, batchTotalRuns, batchGenerations,
               batchRunsSequence, reps, scenario, enableMoralRepair>>

vars == <<simVars, normVars, modeVars, setupVars, batchVars, frameCount, pc, fault>>

(* ---------------- helpers ---------------------------------------------- *)
Range(s) == {s[i] : i \in DOMAIN s}
Min(a, b) == IF a < b THEN a ELSE b
Abs(a) == IF a < 0 THEN -a ELSE a
EmptyMap == [k \in {} |-> 0]
MapSet(m, k, v) == [x \in (DOMAIN m) \cup {k} |-> IF x = k THEN v ELSE m[x]]
MapGetOr(m, k, d) == IF k \in DOMAIN m THEN m[k] ELSE d
MapCount(m, val) == Cardinality({k \in DOMAIN m : m[k] = val})

(* property keys are strings: normRegistry[undefined] reads key "undefined" *)
ToPropertyKey(k) == IF k = undefined THEN "undefined" ELSE k

(* p5.Vector.dist on the modelled axis *)
(* the function f as a table: every value computed once *)
Tabulated(f) == CHOOSE g \in {f} : g = f

Dist(a, b) == Abs(a.pos - b.pos)

(* ---------------- Agent (src/agent.js) --------------------------------- *)
(* `pref_${normPreference}` *)
PrefGroup(pref) == "pref_" \o pref

(* new Agent(id): social state and counters of a freshly constructed agent *)
NewAgent(ackSet, nts, pos, gen, pref) ==
  [ack |-> [n \in Range(nts) |-> n \in ackSet],
   lastAcknowledgments |-> [n \in Range(nts) |-> n \in ackSet],
   settledAcks |-> [n \in Range(nts) |-> n \in ackSet],  \* history: the acknowledgments as creation or the last boundary left them
   pos |-> pos,
   normPreference |-> pref,
   scenarioGroup |-> pref,
   affiliation |-> PrefGroup(pref),
   trustMap |-> EmptyMap,
   trustKeys |-> <<>>,       \* the keys of trustMap in insertion order
   joined |-> PrefGroup(pref),  \* history: the group updateAffiliations chose
   relationalLedger |-> EmptyMap,
   obligationAttempts |-> 0,
   obligationSuccesses |-> 0,
   internalConflict |-> 0,
   contradictionDebt |-> 0,
   birthGeneration |-> gen]

(* Agent.updateConflictAndDebt *)
updateConflictAndDebt(a) ==
  [a EXCEPT !.internalConflict = MapCount(a.relationalLedger, "denied"),
            !.contradictionDebt = MapCount(a.relationalLedger, "denied")
                                  + MapCount(a.relationalLedger, "expired")]

(* Map.set(k, ..): a new key goes to the end of the insertion order *)
KeysSet(keys, k) == IF k \in Range(keys) THEN keys ELSE Append(keys, k)

(* Agent.recordTrust(targetID, fulfilled) *)
recordTrust(a, targetID, fulfilled) ==
  LET current == MapGetOr(a.trustMap, targetID, 0)
      delta == IF fulfilled THEN trustIncrement ELSE -trustDecrement
  IN [a EXCEPT !.trustMap = MapSet(a.trustMap, targetID, current + delta),
               !.trustKeys = KeysSet(a.trustKeys, targetID)]

(* ---------------- ObligationVector (src/agent.js) ---------------------- *)
(* constructor; jit, spd, del are the three random() draws it makes *)
NewVector(s, t, strength, norm, jit, spd, del, fc, gen) ==
  [source |-> s, target |-> t, strength |-> strength, norm |-> norm,
   status |-> "pending", age |-> 0,
   maxAge |-> expirationBase + jit,
   animT |-> 0, animSpeed |-> spd,
   spawnFrame |-> fc + del,
   resolveOnArrival |-> TRUE,
   resolvedAt |-> -1,        \* null until resolved
   fulfilled |-> FALSE,      \* absent until defaultEnforce sets it
   born |-> gen,             \* history: generation of creation
   logged |-> 0]             \* history: log entries this vector appended

(* ObligationVector.stepAnimation *)
stepAnimation(v, fc) ==
  IF fc < v.spawnFrame THEN v
  ELSE IF v.animT < animOne
       THEN [v EXCEPT !.animT = Min(animOne, v.animT + v.animSpeed)]
       ELSE v

(* ---------------- enforcement (src/norms.js, src/agent.js) ------------- *)
(* An enforcement call works on st = [v, ag, log, threw]: the vector, the  *)
(* agents, the obligation log, and whether a TypeError was raised.         *)

(* obj[name] for a property the object may lack *)
Prop(obj, name) == IF name \in DOMAIN obj THEN obj[name] ELSE undefined

(* a >= b in JS when b may be undefined (NaN compares false) *)
JsGe(a, b) == IF b = undefined THEN FALSE ELSE a >= b

LogEntry(status, norm, from, to, gen) ==
  [status |-> status, norm |-> norm, from |-> from, to |-> to, generation |-> gen]

(* obligationLog.push(entry) made on behalf of the vector under enforcement *)
PushLog(st, entry) ==
  [st EXCEPT !.log = Append(@, entry), !.v.logged = @ + 1]

(* (agent) => agent[`${name}Acknowledges`] *)
acknowledgeFn(name, a) == IF name \in DOMAIN a.ack THEN a.ack[name] ELSE FALSE

(* a registry entry whose enforceFn delegates to defaultEnforce and whose  *)
(* acknowledgeFn reads `${name}Acknowledges`                               *)
NormSpec(name) == [enforceFn |-> "defaultEnforce", acknowledgeFn |-> name]

(* defaultEnforce(vec, {generation, obligationLog}); it returns nothing *)
defaultEnforce(st, gen, reg) ==
  LET vec == st.v
      s == vec.source
      t == vec.target
      dist == Dist(st.ag[s], st.ag[t])
      norm == Prop(vec, "normType")
      key == ToPropertyKey(norm)
  IN IF key \notin DOMAIN reg
     THEN [st EXCEPT !.threw = TRUE]    \* normRegistry[norm] is undefined
     ELSE
     IF \/ ~acknowledgeFn(reg[key].acknowledgeFn, st.ag[s])
        \/ ~acknowledgeFn(reg[key].acknowledgeFn, st.ag[t])
     THEN IF t \notin DOMAIN st.ag[s].relationalLedger
          THEN PushLog([st EXCEPT !.ag[s].relationalLedger = MapSet(@, t, "denied")],
                       LogEntry("denied", norm, s, t, gen))
          ELSE st
     ELSE
     IF ~vec.fulfilled /\ JsGe(vec.age, Prop(vec, "expiration"))
     THEN IF t \notin DOMAIN st.ag[s].relationalLedger
          THEN PushLog([st EXCEPT !.ag[s].relationalLedger = MapSet(@, t, "expired")],
                       LogEntry("expired", norm, s, t, gen))
          ELSE st
     ELSE
     LET st1 == IF dist < proximityThreshold /\ ~vec.fulfilled
                THEN PushLog(
                       [st EXCEPT
                          !.ag[s].obligationAttempts = @ + 1,
                          !.ag[s].obligationSuccesses = @ + 1,
                          !.ag[s].trustMap =
                             MapSet(@, t, MapGetOr(@, t, 0) + trustIncrement),
                          !.ag[s].trustKeys = KeysSet(@, t),
                          !.ag[s].relationalLedger = MapSet(@, t, "fulfilled"),
                          !.v.fulfilled = TRUE],
                       LogEntry("fulfilled", norm, s, t, gen))
                ELSE st
     IN [st1 EXCEPT !.v.age = @ + 1]

(* the status the baseline of enforce picks; r is its random() draw *)
baselineStatus(st, r) ==
  LET v == st.v
      d == Dist(st.ag[v.source], st.ag[v.target])
      proximityOK == d < proximityThreshold
      ackOK == acknowledgeFn(v.norm, st.ag[v.source])
               /\ acknowledgeFn(v.norm, st.ag[v.target])
      p == v.strength * (IF proximityOK THEN 100 ELSE 60)
                      * (IF ackOK THEN 100 ELSE 50)
  IN IF r * 10000 < p THEN "fulfilled" ELSE "denied"

(* bookResolution with the ledger written only when the target has no     *)
(* entry yet (the guard defaultEnforce uses)                               *)
bookResolutionKeepsEntry(st, gen, fc) ==
  LET v == st.v
      s == v.source
      t == v.target
      ok == v.status = "fulfilled"
      a1 == [st.ag EXCEPT
               ![s].obligationAttempts = @ + 1,
               ![s].obligationSuccesses = IF ok THEN @ + 1 ELSE @,
               ![s].relationalLedger =
                  IF t \in DOMAIN @ THEN @ ELSE MapSet(@, t, v.status)]
      a2 == [a1 EXCEPT ![s] = recordTrust(@, t, ok)]
      a3 == [a2 EXCEPT ![t] = recordTrust(@, s, ok)]
  IN [st EXCEPT !.ag = a3, !.v.resolvedAt = fc, !.v.logged = @ + 1,
                !.log = Append(@, LogEntry(v.status, v.norm, s, t, gen))]

(* bookResolution that also recomputes the source's conflict and debt *)
bookResolutionWithMetrics(st, gen, fc) ==
  LET v == st.v
      s == v.source
      t == v.target
      ok == v.status = "fulfilled"
      a1 == [st.ag EXCEPT
               ![s].obligationAttempts = @ + 1,
               ![s].obligationSuccesses = IF ok THEN @ + 1 ELSE @,
               ![s].relationalLedger = MapSet(@, t, v.status)]
      a2 == [a1 EXCEPT ![s] = updateConflictAndDebt(recordTrust(@, t, ok))]
      a3 == [a2 EXCEPT ![t] = recordTrust(@, s, ok)]
  IN PushLog([st EXCEPT !.ag = a3, !.v.resolvedAt = fc],
             LogEntry(v.status, v.norm, s, t, gen))

(* the block of enforce that books a fulfilled or denied vector *)
bookResolution(st, gen, fc) ==
  LET v == st.v
      s == v.source
      t == v.target
      ok == v.status = "fulfilled"
      a1 == [st.ag EXCEPT
               ![s].obligationAttempts = @ + 1,
               ![s].obligationSuccesses = IF ok THEN @ + 1 ELSE @,
               ![s].relationalLedger = MapSet(@, t, v.status)]
      a2 == [a1 EXCEPT ![s] = recordTrust(@, t, ok)]
      a3 == [a2 EXCEPT ![t] = recordTrust(@, s, ok)]
  IN PushLog([st EXCEPT !.ag = a3, !.v.resolvedAt = fc],
             LogEntry(v.status, v.norm, s, t, gen))

(* the expiry block of enforce *)
expire(st, gen, fc) ==
  LET v == st.v
      s == v.source
      t == v.target
      a1 == [st.ag EXCEPT ![s].relationalLedger = MapSet(@, t, "expired")]
      a2 == [a1 EXCEPT ![s] = recordTrust(@, t, FALSE)]
      a3 == [a2 EXCEPT ![t] = recordTrust(@, s, FALSE)]
  IN PushLog([st EXCEPT !.ag = a3, !.v.status = "expired", !.v.resolvedAt = fc],
             LogEntry("expired", v.norm, s, t, gen))

(* enforce from the gate on: the vector is pending, aged and not expired *)
resolve(st, gen, reg, fc, r) ==
  IF st.v.resolveOnArrival /\ st.v.animT < animOne THEN st
  ELSE
  \* every registered enforceFn, and the fallback, is defaultEnforce
  LET called == defaultEnforce(st, gen, reg)
  IN IF called.threw THEN called
     ELSE
     \* defaultEnforce returns undefined, no canonical status: baseline
     LET decided == [called EXCEPT !.v.status = baselineStatus(called, r)]
     IN IF decided.v.status \in {"fulfilled", "denied"}
        THEN bookResolution(decided, gen, fc)
        ELSE decided

(* enforce without the return for a vector that is no longer pending *)
enforceResolvedToo(st, gen, reg, fc, r) ==
  LET aged == [st EXCEPT !.v.age = @ + 1]
  IN IF aged.v.age > aged.v.maxAge THEN expire(aged, gen, fc)
     ELSE resolve([aged EXCEPT !.v = stepAnimation(@, fc)], gen, reg, fc, r)

(* enforce with the arrival gate placed before the aging block *)
enforceGateFirst(st, gen, reg, fc, r) ==
  IF st.v.status # "pending" THEN st
  ELSE
  LET moved == [st EXCEPT !.v = stepAnimation(@, fc)]
  IN IF moved.v.resolveOnArrival /\ moved.v.animT < animOne THEN moved
     ELSE LET aged == [moved EXCEPT !.v.age = @ + 1]
          IN IF aged.v.age > aged.v.maxAge THEN expire(aged, gen, fc)
             ELSE resolve(aged, gen, reg, fc, r)

(* enforce with an expiry that comes one step late *)
enforceLateExpiry(st, gen, reg, fc, r) ==
  IF st.v.status # "pending" THEN st
  ELSE
  LET aged == [st EXCEPT !.v.age = @ + 1]
  IN IF aged.v.age > aged.v.maxAge + 1 THEN expire(aged, gen, fc)
     ELSE resolve([aged EXCEPT !.v = stepAnimation(@, fc)], gen, reg, fc, r)

(* ObligationVector.enforce({generation, obligationLog}); r is the draw    *)
(* of the baseline's random()                                              *)
enforce(st, gen, reg, fc, r) ==
  IF st.v.status # "pending" THEN st
  ELSE
  LET aged == [st EXCEPT !.v.age = @ + 1]
  IN IF aged.v.age > aged.v.maxAge THEN expire(aged, gen, fc)
     ELSE resolve([aged EXCEPT !.v = stepAnimation(@, fc)], gen, reg, fc, r)

(* the state change of ObligationVector.display *)
display(v, fc) == stepAnimation(v, fc)

(* ---------------- hostile pairs (src/sketch.js) ------------------------ *)
(* the group names of the model in the order Array.prototype.sort gives    *)
(* them (UTF-16 code units)                                                *)
SortedGroupNames == <<"pref_care", "pref_epistemic", "pref_legal", "pref_undefined">>

SortRank(g) == CHOOSE i \in DOMAIN SortedGroupNames : SortedGroupNames[i] = g

(* [g1, g2], joined in the order given *)
JoinedKey(g1, g2) == g1 \o "|" \o g2

(* [g1, g2].sort().join('|') *)
HostileKey(g1, g2) ==
  IF SortRank(g1) <= SortRank(g2) THEN g1 \o "|" \o g2 ELSE g2 \o "|" \o g1

(* ---------------- generateObligations (src/sketch.js) ------------------ *)
(* the targets within proximity, hostile or not *)
NearbyAll(ags, ag, s, hp) ==
  {a \in Range(ags) : a # s /\ Dist(ag[a], ag[s]) < proximityThreshold}

(* the filter without `a !== source` *)
NearbySelfToo(ags, ag, s, hp) ==
  {a \in Range(ags) :
     /\ Dist(ag[a], ag[s]) < proximityThreshold
     /\ HostileKey(ag[s].affiliation, ag[a].affiliation) \notin hp}

(* the targets left for source s: within proximity, not of a hostile group *)
Nearby(ags, ag, s, hp) ==
  {a \in Range(ags) :
     /\ a # s /\ Dist(ag[a], ag[s]) < proximityThreshold
     /\ HostileKey(ag[s].affiliation, ag[a].affiliation) \notin hp}

(* the vectors one draw of the loop can push *)
Candidates(ags, ag, nts, fc, gen, hp) ==
  UNION {
    {NewVector(s, t, st, n, jit, spd, del, fc, gen) :
       t \in Nearby(ags, ag, s, hp), st \in Strengths, n \in Range(nts),
       jit \in 0..(expirationRandom - 1), spd \in AnimSpeeds,
       del \in 0..(spawnJitter - 1)} : s \in Range(ags)}

(* generateObligations that returns before it clears obligationVectors     *)
generateObligationsKeep(ags, ag, nts, fc, gen, hp) ==
  IF Len(ags) < 2 THEN {obligationVectors}
  ELSE LET vectorCount == Min(Len(ags) * countMultiplier, SIM_CONFIG.maxVectors)
           cand == Candidates(ags, ag, nts, fc, gen, hp)
           skip == \E s \in Range(ags) : Nearby(ags, ag, s, hp) = {}
       IN {vs \in UNION {[1..n -> cand] : n \in 0..vectorCount} :
             Len(vs) = vectorCount \/ skip}

(* the lists generateObligations can leave in obligationVectors: one draw  *)
(* per i < vectorCount, a draw whose source has nobody nearby is skipped   *)
generateObligations(ags, ag, nts, fc, gen, hp) ==
  IF Len(ags) < 2 THEN {<<>>}
  ELSE LET vectorCount == Min(Len(ags) * countMultiplier, SIM_CONFIG.maxVectors)
           cand == Candidates(ags, ag, nts, fc, gen, hp)
           skip == \E s \in Range(ags) : Nearby(ags, ag, s, hp) = {}
       IN {vs \in UNION {[1..n -> cand] : n \in 0..vectorCount} :
             Len(vs) = vectorCount \/ skip}

(* ---------------- scenarios, affiliations, groups (src/sketch.js) ------ *)
(* classifyScenario(agent): the four acknowledgments it reads, counted     *)
(* against normTypes.length                                                *)
classifyScenario(a, nts) ==
  LET acknowledgments ==
        [n \in {"apriori", "legal", "care", "epistemic"} |-> acknowledgeFn(n, a)]
      ackCount == Cardinality({n \in DOMAIN acknowledgments : acknowledgments[n]})
  IN IF ackCount = Len(nts) THEN "utopian"
     ELSE IF ackCount = 0 THEN "collapsed"
     ELSE IF ackCount = 1
          THEN IF acknowledgments["legal"] THEN "authoritarian"
               ELSE IF acknowledgments["care"] THEN "allCare"
               ELSE "pluralist"
     ELSE "pluralist"

updateScenarios(ag, nts) ==
  [a \in DOMAIN ag |-> [ag[a] EXCEPT !.scenarioGroup = classifyScenario(ag[a], nts)]]

(* sum of f over the finite set S *)
RECURSIVE SumOver(_, _)
SumOver(S, f) ==
  IF S = {} THEN 0
  ELSE LET x == CHOOSE y \in S : TRUE IN f[x] + SumOver(S \ {x}, f)

(* the keys of groupScores in insertion order: the groups of the living    *)
(* neighbours, in the order trustMap.forEach meets them                    *)
RECURSIVE ScoredGroups(_, _, _)
ScoredGroups(ag, keys, k) ==
  IF k > Len(keys) THEN <<>>
  ELSE LET seen == {ag[keys[i]].affiliation :
                      i \in {j \in 1..(k - 1) : keys[j] \in DOMAIN ag}}
       IN (IF keys[k] \in DOMAIN ag /\ ag[keys[k]].affiliation \notin seen
           THEN <<ag[keys[k]].affiliation>> ELSE <<>>)
          \o ScoredGroups(ag, keys, k + 1)

(* a tie between groups that goes to any of them *)
BestGroupsAnyTie(ag, a) ==
  LET known == (DOMAIN ag[a].trustMap) \cap (DOMAIN ag)
      groups == {ag[n].affiliation : n \in known}
      score == [g \in groups |->
                  SumOver({n \in known : ag[n].affiliation = g}, ag[a].trustMap)]
  IN IF groups = {} THEN {PrefGroup(ag[a].normPreference)}
     ELSE {g \in groups : \A h \in groups : score[h] <= score[g]}

(* the group agent a adopts in updateAffiliations: among the groups of its *)
(* living trusted neighbours the first in groupScores whose summed trust   *)
(* no other exceeds (score > maxScore), else its preference group          *)
BestGroups(ag, a) ==
  LET known == (DOMAIN ag[a].trustMap) \cap (DOMAIN ag)
      order == ScoredGroups(ag, ag[a].trustKeys, 1)
      score == [g \in Range(order) |->
                  SumOver({n \in known : ag[n].affiliation = g}, ag[a].trustMap)]
      best == {i \in DOMAIN order :
                 \A j \in DOMAIN order : score[order[j]] <= score[order[i]]}
  IN IF order = <<>> THEN {PrefGroup(ag[a].normPreference)}
     ELSE {order[CHOOSE i \in best : \A j \in best : i <= j]}

(* updateAffiliations: the agents in array order, each seeing the          *)
(* affiliations the earlier ones have just taken                           *)
RECURSIVE updateAffiliationsFrom(_, _, _)
updateAffiliationsFrom(ags, ag, k) ==
  IF k > Len(ags) THEN {ag}
  ELSE UNION {updateAffiliationsFrom(ags, [ag EXCEPT ![ags[k]].affiliation = g,
                                                     ![ags[k]].joined = g], k + 1) :
                g \in BestGroups(ag, ags[k])}

updateAffiliations(ags, ag) == updateAffiliationsFrom(ags, ag, 1)

(* Object.keys(groupMembers): affiliations in order of first occurrence *)
RECURSIVE GroupsOf(_, _, _)
GroupsOf(ags, ag, k) ==
  IF k > Len(ags) THEN <<>>
  ELSE LET g == ag[ags[k]].affiliation
           seen == {ag[ags[i]].affiliation : i \in 1..(k - 1)}
       IN (IF g \in seen THEN <<>> ELSE <<g>>) \o GroupsOf(ags, ag, k + 1)

Members(ags, ag, g) == {a \in Range(ags) : ag[a].affiliation = g}

(* trustSum and count of the pair (g1, g2): both directions pooled *)
PooledTrust(ags, ag, g1, g2) ==
  LET m1 == Members(ags, ag, g1)
      m2 == Members(ags, ag, g2)
      dir == (m1 \X m2) \cup (m2 \X m1)
      t == [e \in dir |-> MapGetOr(ag[e[1]].trustMap, e[2], 0)]
  IN [trustSum |-> SumOver(dir, t), count |-> Cardinality(dir)]

(* the pairs (i, j), i < j, in the order of the two nested loops *)
GroupPairs(n) ==
  LET idx == {e \in (1..n) \X (1..n) : e[1] < e[2]}
      before(e, f) == e[1] < f[1] \/ (e[1] = f[1] /\ e[2] < f[2])
  IN [k \in 1..Cardinality(idx) |->
        CHOOSE e \in idx : Cardinality({f \in idx : before(f, e)}) = k - 1]

(* mergeTargets after the pairs from the k-th on have been visited *)
RECURSIVE MergeTargets(_, _, _, _, _)
MergeTargets(ags, ag, groups, k, acc) ==
  LET pairs == GroupPairs(Len(groups))
  IN IF k > Len(pairs) THEN acc
     ELSE LET g1 == groups[pairs[k][1]]
              g2 == groups[pairs[k][2]]
              pt == PooledTrust(ags, ag, g1, g2)
              hostile == 2 * pt.trustSum < hostileThreshold2 * pt.count
              merge == ~hostile /\ pt.trustSum > mergeThreshold * pt.count
              size1 == Cardinality(Members(ags, ag, g1))
              size2 == Cardinality(Members(ags, ag, g2))
              acc1 == IF ~merge THEN acc
                      ELSE IF size1 >= size2 THEN MapSet(acc, g2, g1)
                      ELSE MapSet(acc, g1, g2)
          IN MergeTargets(ags, ag, groups, k + 1, acc1)

(* updateGroupDynamics: the hostile pairs it records and the agents after  *)
(* the merges                                                              *)
updateGroupDynamics(ags, ag) ==
  LET groups == GroupsOf(ags, ag, 1)
      pairs == GroupPairs(Len(groups))
      hostile == {HostileKey(groups[pairs[k][1]], groups[pairs[k][2]]) :
                    k \in {i \in DOMAIN pairs :
                             LET pt == PooledTrust(ags, ag, groups[pairs[i][1]],
                                                   groups[pairs[i][2]])
                             IN 2 * pt.trustSum < hostileThreshold2 * pt.count}}
      mergeTargets == MergeTargets(ags, ag, groups, 1, EmptyMap)
  IN [hostilePairs |-> hostile,
      ag |-> [a \in DOMAIN ag |->
                IF a \in Range(ags) /\ ag[a].affiliation \in DOMAIN mergeTargets
                THEN [ag[a] EXCEPT !.affiliation = mergeTargets[@]]
                ELSE ag[a]]]

(* ---------------- logGeneration (src/exporter.js) ---------------------- *)
(* a ratio in percent that is 1 when the denominator is 0 *)
RatioEmptyIsOne(num, den) == IF den > 0 THEN (100 * num) \div den ELSE 100

(* a ratio in percent, 0 when the denominator is 0 *)
Ratio(num, den) == IF den > 0 THEN (100 * num) \div den ELSE 0

logGeneration(ags, ag, gen) ==
  LET count(st) == SumOver(Range(ags),
                           [a \in Range(ags) |-> MapCount(ag[a].relationalLedger, st)])
      totalObligationsIssued ==
        SumOver(Range(ags),
                [a \in Range(ags) |-> Cardinality(DOMAIN ag[a].relationalLedger)])
      totalFulfilled == count("fulfilled")
      totalDenied == count("denied")
      totalExpired == count("expired")
      totalRepaired == count("repaired")
      inter == {e \in Range(ags) \X Range(ags) :
                  /\ e[2] \in DOMAIN ag[e[1]].relationalLedger
                  /\ ag[e[1]].affiliation # ag[e[2]].affiliation}
      interDenied == {e \in inter :
                        ag[e[1]].relationalLedger[e[2]] \in {"denied", "expired"}}
  IN [generation |-> gen,
      avgConflict |-> Ratio(Cardinality(interDenied), Cardinality(inter)),
      avgDebt |-> Ratio(totalDenied + totalExpired, Len(ags)),
      totalObligationsIssued |-> totalObligationsIssued,
      totalFulfilled |-> totalFulfilled,
      totalDenied |-> totalDenied,
      totalExpired |-> totalExpired,
      totalRepaired |-> totalRepaired,
      fulfillmentRate |-> Ratio(totalFulfilled, totalObligationsIssued),
      avgRI |-> Ratio(totalFulfilled, totalFulfilled + totalDenied + totalExpired),
      repairEvents |-> totalRepaired,
      emergentNorms |-> Cardinality({ag[a].affiliation : a \in Range(ags)})]

(* a push that overwrites the last record *)
PushOverLast(lg, entry) ==
  IF lg = <<>> THEN <<entry>> ELSE [lg EXCEPT ![Len(lg)] = entry]

(* log.push(entry) *)
PushRecord(lg, entry) == Append(lg, entry)

(* the row of agent a taken from the agents as they were when              *)
(* evolveGeneration was entered                                            *)
AgentLogEntryEarly(ag, a, gen, sc) ==
  [generation |-> gen, scenario |-> sc, id |-> a,
   normPref |-> agent[a].normPreference,
   attempts |-> agent[a].obligationAttempts,
   successes |-> agent[a].obligationSuccesses,
   conflict |-> agent[a].internalConflict,
   debt |-> agent[a].contradictionDebt,
   scenarioGroup |-> agent[a].scenarioGroup,
   affiliation |-> agent[a].affiliation]

(* the row evolveGeneration pushes to agentLog for agent a *)
AgentLogEntry(ag, a, gen, sc) ==
  [generation |-> gen, scenario |-> sc, id |-> a,
   normPref |-> ag[a].normPreference,
   attempts |-> ag[a].obligationAttempts,
   successes |-> ag[a].obligationSuccesses,
   conflict |-> ag[a].internalConflict,
   debt |-> ag[a].contradictionDebt,
   scenarioGroup |-> ag[a].scenarioGroup,
   affiliation |-> ag[a].affiliation]

(* ---------------- initializeAgents, loadScenario (src/sketch.js) ------- *)
(* SCENARIO_FUNCTIONS[type](agent); ackSet: the norms the random() draws   *)
(* of the pluralist scenario acknowledge                                   *)
loadScenario(type, a, nts, ackSet) ==
  IF type = "pluralist"
  THEN [a EXCEPT !.ack = [n \in Range(nts) |-> n \in ackSet],
                 !.settledAcks = [n \in Range(nts) |-> n \in ackSet]]
  ELSE IF type = "allCare"
  THEN [a EXCEPT !.ack = [n \in Range(nts) |-> n = "care"],
                 !.settledAcks = [n \in Range(nts) |-> n = "care"],
                 !.normPreference = "care"]
  ELSE a

(* the agents `for (let i = 0; i < count; i++)` creates *)
Created(count) == IF count > 0 THEN count ELSE 0

(* initializeAgents with an id counter that restarts at 0 *)
initializeAgentsFromZero(count, gai, gen, sc, nts, cv, ackSeqs, prefSeqs) ==
  LET ids == 0..(count - 1)
  IN {[agents |-> [i \in 1..count |-> i - 1],
       agent |-> [a \in ids |->
                    LET i == a
                        pref == e[2][(i % Len(e[2])) + 1]
                        made == [NewAgent({}, nts, e[3][a], gen, pref)
                                   EXCEPT !.scenarioGroup = sc]
                    IN loadScenario(sc, made, nts, e[1][(i % Len(e[1])) + 1])]] :
        e \in ackSeqs \X prefSeqs \X [ids -> cv]}

(* the populations initializeAgents() and loadScenario(sc) can leave:      *)
(* count agents with the ids from gai on; ackSeqs, prefSeqs, cv: the draws *)
initializeAgents(count, gai, gen, sc, nts, cv, ackSeqs, prefSeqs) ==
  LET ids == gai..(gai + count - 1)
  IN {[agents |-> [i \in 1..count |-> gai + i - 1],
       agent |-> [a \in ids |->
                    LET i == a - gai
                        pref == e[2][(i % Len(e[2])) + 1]
                        made == [NewAgent({}, nts, e[3][a], gen, pref)
                                   EXCEPT !.scenarioGroup = sc]
                    IN loadScenario(sc, made, nts, e[1][(i % Len(e[1])) + 1])]] :
        e \in ackSeqs \X prefSeqs \X [ids -> cv]}

(* resetSimulation(): the states it can leave, hp the hostile pairs it     *)
(* finds                                                                   *)
resetSimulationWith(gai, sc, fc, hp, ackSeqs, prefSeqs) ==
  UNION {{[agents |-> P.agents,
           agent |-> P.agent,
           issued |-> [a \in DOMAIN P.agent |-> <<>>],
           globalAgentIndex |-> gai + Created(SIM_CONFIG.numAgents),
           generation |-> 0,
           obligationVectors |-> vs,
           obligationLog |-> <<>>,
           log |-> PushRecord(<<>>, logGeneration(P.agents, P.agent, 0)),
           agentLog |-> <<>>,
           falsifyFlags |-> <<>>,
           initialCount |-> Created(SIM_CONFIG.numAgents)] :
            vs \in generateObligations(P.agents, P.agent, normTypes, fc, 0, hp)} :
         P \in initializeAgents(SIM_CONFIG.numAgents, gai, 0, sc, normTypes,
                                canvas, ackSeqs, prefSeqs)}

(* resetSimulation() with the draws of the main specification *)
resetSimulation(gai, sc, fc, hp) ==
  resetSimulationWith(gai, sc, fc, hp, InitAcks, InitPrefs)

(* ---------------- setup() ---------------------------------------------- *)
(* initializeAgents, loadScenario, generateObligations, logGeneration with *)
(* the configuration cfg on the canvas cv                                  *)
Setup(cfg, cv, ackSeqs, prefSeqs) ==
  /\ SIM_CONFIG = cfg
  /\ canvas = cv
  /\ normTypes = builtinNorms
  /\ normRegistry = [n \in Range(builtinNorms) |-> NormSpec(n)]
  /\ scenario = "pluralist"
  /\ enableMoralRepair = TRUE
  /\ hostilePairs = {}
  /\ \E P \in initializeAgents(cfg.numAgents, 0, 0, "pluralist", builtinNorms,
                               cv, ackSeqs, prefSeqs) :
       /\ agents = P.agents
       /\ agent = P.agent
       /\ log = PushRecord(<<>>, logGeneration(P.agents, P.agent, 0))
  /\ globalAgentIndex = Created(cfg.numAgents)
  /\ initialCount = Created(cfg.numAgents)
  /\ generation = 0
  /\ generationTimer = 0
  /\ frameCount = 0
  /\ obligationVectors \in generateObligations(agents, agent, normTypes, 0, 0, {})
  /\ obligationLog = <<>>
  /\ agentLog = <<>>
  /\ falsifyFlags = <<>>
  /\ validationMode = FALSE
  /\ isPaused = FALSE
  /\ running = TRUE
  /\ batchMode = FALSE
  /\ batchIndex = 0
  /\ batchTotalRuns = 0
  /\ batchGenerations = 0
  /\ batchRunsSequence = <<>>
  /\ reps = 0
  /\ pc = 0
  /\ fault = FALSE
  /\ issued = [i \in 0..(cfg.numAgents - 1) |-> <<>>]

Init ==
  Setup([numAgents |-> numAgents, reproductionChance |-> reproductionChance,
         maxVectors |-> maxVectors],
        Positions, InitAcks, InitPrefs)

(* agent.update() of every agent: motion, and the ledger-derived metrics   *)
(* when rendering                                                          *)
UpdatedAgents(mv) ==
  [a \in DOMAIN agent |->
     LET m == [agent[a] EXCEPT !.pos = mv[a]]
     IN IF validationMode THEN m ELSE updateConflictAndDebt(m)]

(* ---------------- evolveGeneration (src/sketch.js) --------------------- *)
(* a death rule without the old-age boost *)
deathChanceAgeless(a, gen) ==
  deathBaseRate + Min(a.internalConflict * deathConflictWeight, deathConflictCap)

(* death rule: chance in percent, draw the agent's random() *)
deathChance(a, gen) ==
  LET age == gen - a.birthGeneration
      conflictPenalty == Min(a.internalConflict * deathConflictWeight, deathConflictCap)
      oldAgeBoost == IF age > deathAgeThreshold
                     THEN deathOldAgeBoost * (age - deathAgeThreshold) ELSE 0
  IN deathBaseRate + conflictPenalty + oldAgeBoost

(* the preferences normative drift can leave: at most MaxDrifts agents     *)
(* draw below driftChance and take one of the other norms                  *)
Drifts(ags, ag, nts) ==
  {d \in [Range(ags) -> Range(nts)] :
     Cardinality({a \in Range(ags) : d[a] # ag[a].normPreference}) <= MaxDrifts}

(* every ledger entry, whatever its status *)
AnyEntry(ags, ag) ==
  {e \in Range(ags) \X (UNION {DOMAIN ag[a].relationalLedger : a \in Range(ags)}) :
     e[2] \in DOMAIN ag[e[1]].relationalLedger}

(* ledger entries moral repair may turn: <<agent, target>> *)
Repairable(ags, ag) ==
  {e \in Range(ags) \X (UNION {DOMAIN ag[a].relationalLedger : a \in Range(ags)}) :
     /\ e[2] \in DOMAIN ag[e[1]].relationalLedger
     /\ ag[e[1]].relationalLedger[e[2]] \in {"denied", "expired"}}

(* the log entries of one repair pass over the agents in array order; the  *)
(* entries of one agent are taken in id order, n the number of ids         *)
RECURSIVE RepairLog(_, _, _, _, _)
RepairLog(ags, todo, k, gen, n) ==
  IF k > Len(ags) * n THEN <<>>
  ELSE LET a == ags[((k - 1) \div n) + 1]
           t == (k - 1) % n
           rest == RepairLog(ags, todo, k + 1, gen, n)
       IN IF <<a, t>> \in todo
          THEN <<LogEntry("repaired", "n/a", a, t, gen)>> \o rest
          ELSE rest

(* moral repair that drops the repaired entries from the ledger *)
moralRepairDrops(ag, todo) ==
  [a \in DOMAIN ag |->
     [ag[a] EXCEPT !.relationalLedger =
        [t \in {x \in DOMAIN @ : <<a, x>> \notin todo} |-> @[t]]]]

moralRepair(ag, todo) ==
  [a \in DOMAIN ag |->
     [ag[a] EXCEPT !.relationalLedger =
        [t \in DOMAIN @ |-> IF <<a, t>> \in todo THEN "repaired" ELSE @[t]]]]

(* acknowledgments a child can get from a parent: inherited, except for    *)
(* the norms whose draw fell to mutation, which get a fresh random value   *)
ChildAcks(parentAck) ==
  {f \in [DOMAIN parentAck -> BOOLEAN] :
     Cardinality({n \in DOMAIN parentAck : f[n] # parentAck[n]}) <= MaxMutations}

(* the preference a child can get: the parent's, or random(normTypes)      *)
ChildPrefs(parentPref, nts) ==
  {parentPref} \cup (IF MaxMutations > 0 THEN Range(nts) ELSE {})

(* reproduction without the population cap *)
RECURSIVE ParentsUncapped(_, _, _, _, _)
ParentsUncapped(ags, draw, k, made, room) ==
  IF k > Len(ags) THEN <<>>
  ELSE IF /\ made < room
          /\ draw[ags[k]] < SIM_CONFIG.reproductionChance
       THEN <<ags[k]>> \o ParentsUncapped(ags, draw, k + 1, made + 1, room)
       ELSE ParentsUncapped(ags, draw, k + 1, made, room)

(* reproduction in which a parent whose draw succeeds has two children     *)
RECURSIVE ParentsTwice(_, _, _, _, _)
ParentsTwice(ags, draw, k, made, room) ==
  IF k > Len(ags) THEN <<>>
  ELSE IF /\ made + 1 < room
          /\ draw[ags[k]] < SIM_CONFIG.reproductionChance
          /\ Len(ags) + made < SIM_CONFIG.numAgents * populationCapFactor
       THEN <<ags[k], ags[k]>> \o ParentsTwice(ags, draw, k + 1, made + 2, room)
       ELSE ParentsTwice(ags, draw, k + 1, made, room)

(* which parents reproduce, given their draws: array order, cap counted    *)
(* with the offspring already created; room: the ids the model has left,   *)
(* once they are used up nobody reproduces and no draw is taken            *)
RECURSIVE Parents(_, _, _, _, _)
Parents(ags, draw, k, made, room) ==
  IF k > Len(ags) THEN <<>>
  ELSE IF /\ made < room
          /\ draw[ags[k]] < SIM_CONFIG.reproductionChance
          /\ Len(ags) + made < SIM_CONFIG.numAgents * populationCapFactor
       THEN <<ags[k]>> \o Parents(ags, draw, k + 1, made + 1, room)
       ELSE Parents(ags, draw, k + 1, made, room)

(* a hand-over one generation late *)
BudgetOverspent(gen, budget) == gen > budget

(* generation >= batchGenerations *)
BudgetSpent(gen, budget) == gen >= budget

(* agent[key] !== agent.lastAcknowledgments[norm] *)
AckDiffers(a, n) ==
  IF n \in DOMAIN a.ack /\ n \in DOMAIN a.lastAcknowledgments
  THEN a.ack[n] # a.lastAcknowledgments[n]
  ELSE (n \in DOMAIN a.ack) # (n \in DOMAIN a.lastAcknowledgments)

(* the flags the acknowledgment monitor pushes for the agents from k on *)
RECURSIVE acknowledgmentFlags(_, _, _, _, _)
acknowledgmentFlags(ags, ag, nts, gen, k) ==
  IF k > Len(ags) THEN <<>>
  ELSE LET a == ags[k]
           changed == SelectSeq(nts, LAMBDA n : AckDiffers(ag[a], n))
       IN [i \in 1..Len(changed) |->
             [id |-> a, norm |-> changed[i],
              to |-> acknowledgeFn(changed[i], ag[a]), generation |-> gen]]
          \o acknowledgmentFlags(ags, ag, nts, gen, k + 1)

(* agent.lastAcknowledgments[norm] = agent[key] for the norms that differ *)
snapshotAcknowledgments(a, nts) ==
  [a EXCEPT !.lastAcknowledgments =
              [n \in (DOMAIN @) \cup (Range(nts) \cap DOMAIN a.ack) |->
                 IF n \in Range(nts) /\ n \in DOMAIN a.ack THEN a.ack[n] ELSE @[n]],
            !.settledAcks = a.ack]

(* ag0: the agents as the frame's update loop left them; idBound: the ids  *)
(* the model has                                                           *)
evolveGeneration(ag0, idBound) ==
  \E dieDraw \in [Range(agents) -> Rand] :
    LET survivors == SelectSeq(agents,
                       LAMBDA a : ~(dieDraw[a] < deathChance(ag0[a], generation)))
        ag1 == Tabulated([a \in Range(survivors) |-> updateConflictAndDebt(ag0[a])])
        gen1 == generation + 1
    IN
    \E drift \in Drifts(survivors, ag1, normTypes) :
    \E ag3 \in updateAffiliations(survivors,
                 Tabulated(updateScenarios(
                             [a \in DOMAIN ag1 |->
                                [ag1[a] EXCEPT !.normPreference = drift[a]]],
                             normTypes))) :
      LET gd == updateGroupDynamics(survivors, Tabulated(ag3))
          ag4 == Tabulated([a \in DOMAIN ag3 |-> updateConflictAndDebt(gd.ag[a])])
          falsifyFlags1 == falsifyFlags \o
                             acknowledgmentFlags(survivors, ag4, normTypes, gen1, 1)
          ag4s == Tabulated([a \in DOMAIN ag4 |->
                               snapshotAcknowledgments(ag4[a], normTypes)])
          handOver == batchMode /\ BudgetSpent(gen1, batchGenerations)
          batchIndex1 == IF handOver THEN batchIndex + 1 ELSE batchIndex
          nextRun == handOver /\ batchIndex1 < batchTotalRuns
          lastRun == handOver /\ ~nextRun
          cfg == batchRunsSequence[batchIndex1 + 1]
          scenario1 == IF nextRun THEN cfg.scenario ELSE scenario
          enableMoralRepair1 == IF nextRun THEN cfg.combo.enableMoralRepair
                                ELSE enableMoralRepair
          log1 == PushRecord(log, logGeneration(survivors, ag4, gen1))
          agentLog1 == agentLog \o [i \in 1..Len(survivors) |->
                                     AgentLogEntry(ag4, survivors[i], gen1, scenario)]
          evolved == {[agents |-> survivors,
                       agent |-> ag4s,
                       issued |-> [a \in Range(survivors) |-> issued[a]],
                       globalAgentIndex |-> globalAgentIndex,
                       generation |-> gen1,
                       obligationVectors |-> vs,
                       obligationLog |-> obligationLog,
                       log |-> log1,
                       agentLog |-> agentLog1,
                       falsifyFlags |-> falsifyFlags1,
                       initialCount |-> initialCount] :
                        vs \in generateObligations(survivors, ag1, normTypes,
                                                   frameCount, gen1, hostilePairs)}
      IN
      \E m \in IF nextRun
               THEN resetSimulation(globalAgentIndex, scenario1, frameCount,
                                    gd.hostilePairs)
               ELSE evolved :
      \E repDraw \in [Repairable(m.agents, m.agent) -> Rand] :
      \E reproDraw \in [IF m.globalAgentIndex < idBound
                         THEN Range(m.agents) ELSE {} -> Rand] :
        LET todo == IF enableMoralRepair1
                    THEN {e \in DOMAIN repDraw : repDraw[e] < repairChance}
                    ELSE {}
            ag5 == Tabulated(moralRepair(m.agent, todo))
            parents == Parents(m.agents, reproDraw, 1, 0,
                               idBound - m.globalAgentIndex)
            kids == [i \in 1..Len(parents) |-> m.globalAgentIndex + i - 1]
        IN
        \E kidAck \in [1..Len(parents) ->
                         UNION {ChildAcks(ag5[q].ack) : q \in Range(parents)}] :
        \E kidPref \in [1..Len(parents) ->
                          UNION {ChildPrefs(ag5[q].normPreference, normTypes) :
                                   q \in Range(parents)}] :
        \E kidPos \in [1..Len(parents) -> canvas] :
          /\ \A i \in 1..Len(parents) :
               /\ kidAck[i] \in ChildAcks(ag5[parents[i]].ack)
               /\ kidPref[i] \in ChildPrefs(ag5[parents[i]].normPreference, normTypes)
          /\ agents' = m.agents \o kids
          /\ agent' = [a \in Range(m.agents) \cup Range(kids) |->
                         IF a \in Range(m.agents) THEN ag5[a]
                         ELSE LET i == a - m.globalAgentIndex + 1
                                  parent == ag5[parents[i]]
                              IN [NewAgent({}, normTypes, kidPos[i], m.generation,
                                           kidPref[i])
                                    EXCEPT !.ack = kidAck[i],
                                           !.settledAcks = kidAck[i],
                                           !.scenarioGroup = parent.scenarioGroup,
                                           !.affiliation = parent.affiliation,
                                           !.joined = parent.affiliation]]
          /\ issued' = [a \in Range(m.agents) \cup Range(kids) |->
                         IF a \in Range(m.agents) THEN m.issued[a] ELSE <<>>]
          /\ globalAgentIndex' = m.globalAgentIndex + Len(parents)
          /\ generation' = m.generation
          /\ obligationVectors' = m.obligationVectors
          /\ obligationLog' = m.obligationLog \o
                                RepairLog(m.agents, todo, 1, m.generation,
                                          m.globalAgentIndex)
          /\ log' = m.log
          /\ agentLog' = m.agentLog
          /\ falsifyFlags' = m.falsifyFlags
          /\ initialCount' = m.initialCount
          /\ hostilePairs' = gd.hostilePairs
          /\ batchIndex' = batchIndex1
          /\ scenario' = scenario1
          /\ enableMoralRepair' = enableMoralRepair1
          /\ batchMode' = (batchMode /\ ~lastRun)
          /\ validationMode' = (validationMode /\ ~lastRun)
          /\ running' = (nextRun \/ (running /\ ~lastRun))
          /\ UNCHANGED <<batchTotalRuns, batchGenerations, batchRunsSequence, reps>>

(* ---------------- draw() (src/sketch.js) ------------------------------- *)
(* a frame that enforces begins *)
BeginFrame ==
  /\ pc = 0
  /\ validationMode \/ ~isPaused
  /\ frameCount' = frameCount + 1
  /\ pc' = 1
  /\ UNCHANGED <<simVars, normVars, modeVars, setupVars, batchVars, fault>>

DrawBegin == frameCount < MaxFrames /\ BeginFrame

(* one turn of the loop over obligationVectors: enforce, then display when *)
(* rendering; a TypeError leaves draw() at once                            *)
EnforceStep ==
  /\ pc \in 1..Len(obligationVectors)
  /\ \E r \in Rand :
       LET v0 == obligationVectors[pc]
           st == enforce([v |-> v0, ag |-> agent, log |-> obligationLog,
                          threw |-> FALSE],
                         generation, normRegistry, frameCount, r)
           v1 == IF st.threw \/ validationMode THEN st.v
                 ELSE display(st.v, frameCount)
       IN /\ obligationVectors' = [obligationVectors EXCEPT ![pc] = v1]
          /\ agent' = st.ag
          /\ obligationLog' = st.log
          /\ fault' = (fault \/ st.threw)
          /\ pc' = IF st.threw THEN 0 ELSE pc + 1
          /\ issued' = IF v0.status = "pending" /\ v1.status # "pending"
                       THEN [issued EXCEPT ![v0.source] =
                               Append(@, [to |-> v0.target, status |-> v1.status])]
                       ELSE issued
  /\ UNCHANGED <<agents, globalAgentIndex, generation, generationTimer,
                 hostilePairs, log, agentLog, falsifyFlags, initialCount, frameCount,
                 normVars, modeVars, setupVars, batchVars>>

(* end of a frame whose generation timer does not run out *)
DrawEndTick ==
  /\ pc = Len(obligationVectors) + 1
  /\ ~running \/ generationTimer + 1 < generationInterval
  /\ \E mv \in [DOMAIN agent -> canvas] : agent' = UpdatedAgents(mv)
  /\ generationTimer' = IF running THEN generationTimer + 1 ELSE generationTimer
  /\ pc' = 0
  /\ UNCHANGED <<agents, globalAgentIndex, obligationVectors, obligationLog,
                 generation, issued, hostilePairs, log, agentLog, falsifyFlags, initialCount,
                 frameCount, normVars, modeVars, setupVars, batchVars, fault>>

(* end of a frame whose generation timer runs out: evolveGeneration *)
EndFrameEvolve(idBound) ==
  /\ pc = Len(obligationVectors) + 1
  /\ running /\ generationTimer + 1 >= generationInterval
  /\ \E mv \in [DOMAIN agent -> canvas] :
       evolveGeneration(UpdatedAgents(mv), idBound)
  /\ generationTimer' = 0
  /\ pc' = 0
  /\ UNCHANGED <<frameCount, normVars, isPaused, setupVars, fault>>

DrawEndEvolve == generation < MaxGenerations /\ EndFrameEvolve(MaxAgentIndex)

(* ---------------- GUI callbacks (src/sketch.js) ------------------------ *)
(* registerNorm(name, spec) of src/norms.js *)
registerNorm(reg, name, spec) == MapSet(reg, name, spec)

(* onAddNorm({name, color}) with name.toLowerCase() = lower; ackDraw: the  *)
(* random() draw of each agent                                             *)
onAddNorm(lower) ==
  /\ IF lower \in Range(normTypes)
     THEN UNCHANGED <<normTypes, normRegistry, agent>>
     ELSE /\ normRegistry' = registerNorm(normRegistry, lower, NormSpec(lower))
          /\ normTypes' = Append(normTypes, lower)
          /\ \E ackDraw \in [DOMAIN agent -> Rand] :
               agent' = [a \in DOMAIN agent |->
                           [agent[a] EXCEPT
                              !.ack =
                                [n \in (DOMAIN @) \cup {lower} |->
                                   IF n = lower THEN ackDraw[a] > 50 ELSE @[n]],
                              !.lastAcknowledgments =
                                [n \in (DOMAIN @) \cup {lower} |->
                                   IF n = lower THEN ackDraw[a] > 50 ELSE @[n]],
                              !.settledAcks =
                                [n \in (DOMAIN @) \cup {lower} |->
                                   IF n = lower THEN ackDraw[a] > 50 ELSE @[n]]]]
  /\ UNCHANGED <<agents, globalAgentIndex, obligationVectors, obligationLog,
                 generation, generationTimer, issued, hostilePairs, log,
                 agentLog, falsifyFlags, initialCount, modeVars, setupVars, batchVars,
                 frameCount, pc, fault>>

AddNorm ==
  /\ pc = 0
  /\ Len(normTypes) < Len(builtinNorms) + MaxAddedNorms
  /\ \E lower \in AddableNames : onAddNorm(lower)

(* onAdvancedChange(settings): the fields of settings that are given *)
onAdvancedChange(settings) ==
  /\ SIM_CONFIG' =
       [SIM_CONFIG EXCEPT
          !.numAgents = IF "numAgents" \in DOMAIN settings
                        THEN settings.numAgents ELSE @,
          !.reproductionChance = IF "reproductionChance" \in DOMAIN settings
                                 THEN settings.reproductionChance ELSE @]
  /\ validationMode' = IF "validationMode" \in DOMAIN settings
                       THEN settings.validationMode ELSE validationMode
  /\ UNCHANGED <<simVars, normVars, isPaused, running, canvas, batchVars,
                 frameCount, pc, fault>>

(* the validation-mode switch *)
AdvancedChange ==
  /\ pc = 0
  /\ \E b \in BOOLEAN : onAdvancedChange([validationMode |-> b])

Next ==
  \/ DrawBegin
  \/ EnforceStep
  \/ DrawEndTick
  \/ DrawEndEvolve
  \/ AddNorm
  \/ AdvancedChange

Spec == Init /\ [][Next]_vars

(* ---------------- population runs -------------------------------------- *)
(* runs without obligation vectors in which agents die and reproduce and   *)
(* the agent-count slider of the advanced panel is moved                   *)
PopAgents == 2
MaxPopGenerations == 3
AgentSliderValues == {2, 3}

(* ids enough for every birth the cap allows in the generations of a run   *)
PopIdBound(n) ==
  n + MaxPopGenerations * (n + 2) * populationCapFactor

PopInit ==
  Setup([numAgents |-> PopAgents, reproductionChance |-> reproductionChance,
         maxVectors |-> 0],
        {200}, {<<{"legal"}, {"legal"}>>}, InitPrefs)

PopDrawBegin == generation < MaxPopGenerations /\ BeginFrame

PopDrawEndEvolve ==
  /\ generation < MaxPopGenerations
  /\ EndFrameEvolve(PopIdBound(PopAgents))

(* agentSlider.input(notifyAdvanced) of src/gui.js *)
AgentSlider ==
  /\ pc = 0
  /\ generation < MaxPopGenerations
  /\ \E n \in AgentSliderValues : onAdvancedChange([numAgents |-> n])

PopNext ==
  \/ PopDrawBegin
  \/ DrawEndTick
  \/ PopDrawEndEvolve
  \/ AgentSlider

SpecPop == PopInit /\ [][PopNext]_vars

(* Scenario D: every reproduction draw succeeds, the configuration is     *)
(* left alone                                                              *)
reproSliderMax == 100

ScenarioDInit ==
  Setup([numAgents |-> PopAgents, reproductionChance |-> reproSliderMax,
         maxVectors |-> 0],
        {200}, {<<{"legal"}, {"legal"}>>}, InitPrefs)

ScenarioDNext ==
  \/ PopDrawBegin
  \/ DrawEndTick
  \/ PopDrawEndEvolve

SpecScenarioD == ScenarioDInit /\ [][ScenarioDNext]_vars

(* two agents of different norm preference, in either order *)
GroupPrefs == {<<"legal", "care">>, <<"care", "legal">>}

(* runs of two agents of different groups: the group a child carries      *)
(* tells its parent                                                        *)
BirthInit ==
  Setup([numAgents |-> PopAgents, reproductionChance |-> reproductionChance,
         maxVectors |-> 0],
        {200}, {<<{"legal"}, {"legal"}>>}, GroupPrefs)

SpecBirths == BirthInit /\ [][ScenarioDNext]_vars

(* ---------------- runs with groups ------------------------------------- *)
(* two agents that prefer different norms, so that they start in different *)
(* groups; nobody is born                                                  *)
GroupAgents == 2
MaxGroupGenerations == 2

GroupInit ==
  Setup([numAgents |-> GroupAgents, reproductionChance |-> reproductionChance,
         maxVectors |-> maxVectors],
        Positions, {<<{"legal", "care"}, {"legal"}>>}, GroupPrefs)

GroupDrawBegin == generation < MaxGroupGenerations /\ BeginFrame

GroupDrawEndEvolve ==
  /\ generation < MaxGroupGenerations
  /\ EndFrameEvolve(GroupAgents)

GroupNext ==
  \/ GroupDrawBegin
  \/ EnforceStep
  \/ DrawEndTick
  \/ GroupDrawEndEvolve

SpecGroups == GroupInit /\ [][GroupNext]_vars

(* ---------------- the registry, written from outside ------------------ *)
(* registerNorm is exported: besides the advanced panel a script can       *)
(* register definitions under any name                                     *)
RegNames == {"legal", "care", "undefined"}
MaxRegFrames == 2

RegInit ==
  Setup([numAgents |-> numAgents, reproductionChance |-> reproductionChance,
         maxVectors |-> 0],
        {200}, {<<{"legal"}, {"care"}>>}, InitPrefs)

(* registerNorm(name, spec) called from a script *)
RegisterNorm ==
  /\ pc = 0
  /\ \E name \in RegNames : \E def \in {NormSpec(n) : n \in RegNames} :
       normRegistry' = registerNorm(normRegistry, name, def)
  /\ UNCHANGED <<simVars, normTypes, modeVars, setupVars, batchVars,
                 frameCount, pc, fault>>

(* the add-norm form of the advanced panel, submitted with a name *)
RegAddNorm ==
  /\ pc = 0
  /\ \E lower \in RegNames :
       /\ lower \in Range(normTypes)
            \/ Len(normTypes) < Len(builtinNorms) + MaxAddedNorms
       /\ onAddNorm(lower)

RegDrawBegin == frameCount < MaxRegFrames /\ BeginFrame

RegNext ==
  \/ RegisterNorm
  \/ RegAddNorm
  \/ RegDrawBegin
  \/ DrawEndTick

SpecRegistry == RegInit /\ [][RegNext]_vars

(* ---------------- batch runs ------------------------------------------- *)
(* runs without obligation vectors, started from the batch button         *)
defaultBatchGenerations == 25
BatchAgents == 1
BatchRuns == {1, 2}
BatchGenerations == {1, 2}
MaxStartFrame == 1

(* ids enough for every run of a batch *)
BatchIdBound ==
  BatchAgents * (MaxStartFrame + 1) * (populationCapFactor + 1)
    * (1 + Len(SCENARIO_NAMES) * Len(combos) * 3 * 3)

(* batchRunsSequence as startBatch builds it: for each scenario, for each  *)
(* combo, r entries                                                        *)
BatchSequence(r) ==
  [k \in 1..(Len(SCENARIO_NAMES) * Len(combos) * r) |->
     [scenario |-> SCENARIO_NAMES[((k - 1) \div (Len(combos) * r)) + 1],
      combo |-> combos[(((k - 1) \div r) % Len(combos)) + 1]]]

BatchInit ==
  Setup([numAgents |-> BatchAgents, reproductionChance |-> reproductionChance,
         maxVectors |-> 0],
        {200}, InitAcks, InitPrefs)

(* window.startBatch(runs, generations) *)
startBatch(runs, generations) ==
  LET reps1 == IF runs = 0 THEN 1 ELSE runs
      seq == BatchSequence(reps1)
      scenario1 == IF Len(seq) > 0 THEN seq[1].scenario ELSE scenario
  IN /\ reps' = reps1
     /\ batchGenerations' = IF generations = 0 THEN defaultBatchGenerations
                            ELSE generations
     /\ batchRunsSequence' = seq
     /\ batchTotalRuns' = Len(seq)
     /\ batchIndex' = 0
     /\ batchMode' = TRUE
     /\ validationMode' = TRUE
     /\ scenario' = scenario1
     /\ enableMoralRepair' = IF Len(seq) > 0 THEN seq[1].combo.enableMoralRepair
                             ELSE enableMoralRepair
     /\ \E m \in resetSimulation(globalAgentIndex, scenario1, frameCount,
                                 hostilePairs) :
          /\ agents' = m.agents
          /\ agent' = m.agent
          /\ issued' = m.issued
          /\ globalAgentIndex' = m.globalAgentIndex
          /\ generation' = m.generation
          /\ obligationVectors' = m.obligationVectors
          /\ obligationLog' = m.obligationLog
          /\ log' = m.log
          /\ agentLog' = m.agentLog
          /\ falsifyFlags' = m.falsifyFlags
          /\ initialCount' = m.initialCount
     /\ generationTimer' = 0
     /\ running' = TRUE
     /\ UNCHANGED <<hostilePairs, normVars, isPaused, setupVars, frameCount,
                    pc, fault>>

(* the batch button of the advanced panel *)
StartBatch ==
  /\ pc = 0
  /\ ~batchMode /\ batchIndex = 0
  /\ \E r \in BatchRuns : \E n \in BatchGenerations : startBatch(r, n)

BatchDrawBegin == (batchMode \/ frameCount < MaxStartFrame) /\ BeginFrame

BatchDrawEndEvolve ==
  /\ batchMode
  /\ EndFrameEvolve(BatchIdBound)

BatchDraw ==
  \/ BatchDrawBegin
  \/ DrawEndTick
  \/ BatchDrawEndEvolve

BatchNext ==
  \/ StartBatch
  \/ BatchDraw

(* draw() is called frame after frame *)
SpecBatch == BatchInit /\ [][BatchNext]_vars /\ WF_vars(BatchDraw)

(* ---------------- runs from a given configuration --------------------- *)
(* numAgents as config.js gives it; the run is reset from the button      *)
ConfigCounts == {-1, 0, 1, 2}
MaxConfigFrames == 7
ConfigIdBound == 6

ConfigInit ==
  \E n \in ConfigCounts :
    Setup([numAgents |-> n, reproductionChance |-> reproductionChance,
           maxVectors |-> 0],
          {200}, {<<{"legal"}, {"legal"}>>}, InitPrefs)

(* onReset: resetSimulation() *)
onResetWith(ackSeqs, prefSeqs) ==
  /\ \E m \in resetSimulationWith(globalAgentIndex, scenario, frameCount,
                                  hostilePairs, ackSeqs, prefSeqs) :
       /\ agents' = m.agents
       /\ agent' = m.agent
       /\ issued' = m.issued
       /\ globalAgentIndex' = m.globalAgentIndex
       /\ generation' = m.generation
       /\ obligationVectors' = m.obligationVectors
       /\ obligationLog' = m.obligationLog
       /\ log' = m.log
       /\ agentLog' = m.agentLog
       /\ falsifyFlags' = m.falsifyFlags
       /\ initialCount' = m.initialCount
  /\ generationTimer' = 0
  /\ running' = TRUE
  /\ UNCHANGED <<hostilePairs, normVars, validationMode, isPaused, setupVars,
                 batchVars, frameCount, pc, fault>>

onReset == onResetWith(InitAcks, InitPrefs)

ConfigReset ==
  /\ pc = 0
  /\ globalAgentIndex + Created(SIM_CONFIG.numAgents) <= ConfigIdBound
  /\ onReset

ConfigDrawBegin == frameCount < MaxConfigFrames /\ BeginFrame

ConfigDrawEndEvolve == EndFrameEvolve(ConfigIdBound)

ConfigNext ==
  \/ ConfigDrawBegin
  \/ DrawEndTick
  \/ ConfigDrawEndEvolve
  \/ ConfigReset

SpecConfig == ConfigInit /\ [][ConfigNext]_vars

(* ---------------- runs with the feature toggles ------------------------ *)
ToggleNames == {"Moral Repair", "Directed Norms"}

(* onToggleChange(name) *)
onToggleChange(name) ==
  /\ enableMoralRepair' = IF name = "Moral Repair" THEN ~enableMoralRepair
                          ELSE enableMoralRepair
  /\ UNCHANGED <<simVars, normVars, modeVars, setupVars, batchMode, batchIndex,
                 batchTotalRuns, batchGenerations, batchRunsSequence, reps,
                 scenario, frameCount, pc, fault>>

ToggleChange ==
  /\ pc = 0
  /\ \E name \in ToggleNames : onToggleChange(name)

RepairNext ==
  \/ DrawBegin
  \/ EnforceStep
  \/ DrawEndTick
  \/ DrawEndEvolve
  \/ AddNorm
  \/ ToggleChange

SpecRepair == Init /\ [][RepairNext]_vars

(* ---------------- runs in which vectors outlive agents ----------------- *)
(* two agents at one place that prefer different norms, one vector per     *)
(* generation; agents die, are born, and the run is reset from the button  *)
MaxVecFrames == 7
MaxVecGenerations == 2
VecIdBound == 4
VecPrefs == {<<"legal", "care">>}

VecInit ==
  Setup([numAgents |-> numAgents, reproductionChance |-> reproductionChance,
         maxVectors |-> maxVectors],
        {200}, {<<{"legal"}, {"legal"}>>}, VecPrefs)

VecDrawBegin == frameCount < MaxVecFrames /\ BeginFrame

VecDrawEndEvolve ==
  /\ generation < MaxVecGenerations
  /\ EndFrameEvolve(VecIdBound)

VecReset ==
  /\ pc = 0
  /\ globalAgentIndex + Created(SIM_CONFIG.numAgents) <= VecIdBound
  /\ onReset

VecNext ==
  \/ VecDrawBegin
  \/ EnforceStep
  \/ DrawEndTick
  \/ VecDrawEndEvolve
  \/ VecReset

SpecVectors == VecInit /\ [][VecNext]_vars

(* ======================= properties ==================================== *)
LedgerStatuses == {"fulfilled", "denied", "expired", "repaired"}

(* a step of the loop in draw() over vector pc *)
IsEnforceStep ==
  /\ pc \in 1..Len(obligationVectors)
  /\ pc' \in {0, pc + 1}
  /\ Len(obligationVectors') = Len(obligationVectors)

Trust(ag, a, b) == MapGetOr(ag[a].trustMap, b, 0)

BothAcknowledge(v) ==
  acknowledgeFn(v.norm, agent[v.source]) /\ acknowledgeFn(v.norm, agent[v.target])

(* the arrival signal as enforce finds it at its gate *)
ArrivedAtGate(v) == stepAnimation(v, frameCount).animT >= animOne

CountOutcomes(a, S) == Cardinality({k \in DOMAIN issued[a] : issued[a][k].status \in S})

LegalStatusStep(a, b) ==
  \/ a = b
  \/ a = "pending" /\ b \in {"fulfilled", "denied", "expired"}
  \/ a \in {"denied", "expired"} /\ b = "repaired"

(* C1: the status of one obligation vector only moves pending -> fulfilled, *)
(* denied or expired, or denied/expired -> repaired; an enforcement step    *)
(* on a vector that has left pending leaves its status as it is.            *)
C1_StatusOneDirectional ==
  [][\A i \in (DOMAIN obligationVectors) \cap (DOMAIN obligationVectors') :
       obligationVectors'[i].born = obligationVectors[i].born =>
         /\ LegalStatusStep(obligationVectors[i].status, obligationVectors'[i].status)
         /\ (obligationVectors[i].status # "pending" =>
               obligationVectors'[i].status = obligationVectors[i].status)]_vars

(* a resolved vector has been enforced again in a later frame *)
C1_Witness ==
  \E i \in DOMAIN obligationVectors :
    /\ obligationVectors[i].status \in {"fulfilled", "denied", "expired"}
    /\ obligationVectors[i].resolvedAt < frameCount
    /\ pc > i

(* C2: every ledger value is fulfilled, denied, expired or repaired, the    *)
(* four counts add up to the ledger's size, and the ledger's keys are       *)
(* exactly the targets to which an obligation of the agent was resolved.    *)
C2_LedgerWellFormed ==
  \A a \in DOMAIN agent :
    LET L == agent[a].relationalLedger
    IN /\ \A t \in DOMAIN L : L[t] \in LedgerStatuses
       /\ MapCount(L, "fulfilled") + MapCount(L, "denied")
            + MapCount(L, "expired") + MapCount(L, "repaired")
          = Cardinality(DOMAIN L)
       /\ DOMAIN L = {issued[a][k].to : k \in DOMAIN issued[a]}

(* two obligations to one target were resolved, one entry is kept, and a    *)
(* repair has been through the ledger                                       *)
C2_Witness ==
  \E a \in DOMAIN agent :
    /\ Len(issued[a]) >= 2
    /\ Cardinality(DOMAIN agent[a].relationalLedger) = 1
    /\ \E e \in Range(obligationLog) : e.status = "repaired" /\ e.from = a

(* C3 as claimed: an enforcement step on a pending, unexpired vector that   *)
(* has arrived, whose endpoints both acknowledge its norm and are within    *)
(* the proximity threshold, resolves it to fulfilled and raises both trust  *)
(* scores by the increment.                                                 *)
C3_Claimed ==
  [][IsEnforceStep =>
       LET v == obligationVectors[pc]
           w == obligationVectors'[pc]
           s == v.source
           t == v.target
       IN (/\ v.status = "pending"
           /\ v.age + 1 <= v.maxAge
           /\ ArrivedAtGate(v)
           /\ BothAcknowledge(v)
           /\ Dist(agent[s], agent[t]) < proximityThreshold)
          => /\ w.status = "fulfilled"
             /\ Trust(agent', s, t) = Trust(agent, s, t) + trustIncrement
             /\ Trust(agent', t, s) = Trust(agent, t, s) + trustIncrement]_vars

(* C4 as claimed: an enforcement step on a pending, unexpired vector that   *)
(* has arrived and has an endpoint that does not acknowledge its norm       *)
(* resolves it as denied, with ledger entry and log entry denied; it is     *)
(* not resolved as fulfilled.                                               *)
C4_Claimed ==
  [][IsEnforceStep =>
       LET v == obligationVectors[pc]
           w == obligationVectors'[pc]
           s == v.source
           t == v.target
       IN (/\ v.status = "pending"
           /\ v.age + 1 <= v.maxAge
           /\ ArrivedAtGate(v)
           /\ ~BothAcknowledge(v))
          => /\ w.status = "denied"
             /\ t \in DOMAIN agent'[s].relationalLedger
             /\ agent'[s].relationalLedger[t] = "denied"
             /\ obligationLog' =
                  Append(obligationLog, LogEntry("denied", v.norm, s, t, generation))]_vars

(* C5 as claimed: a vector appends at most one entry to the obligation log  *)
(* in its lifetime.                                                         *)
C5_Claimed ==
  \A i \in DOMAIN obligationVectors : obligationVectors[i].logged <= 1

(* C6 as claimed: a resolution moves the source's trust in the target and   *)
(* the target's trust in the source by the same amount, + increment when    *)
(* fulfilled and - decrement when denied or expired; a step that does not   *)
(* resolve the vector changes no trust map.                                 *)
C6_Claimed ==
  [][IsEnforceStep =>
       LET v == obligationVectors[pc]
           w == obligationVectors'[pc]
           s == v.source
           t == v.target
           ds == Trust(agent', s, t) - Trust(agent, s, t)
           dt == Trust(agent', t, s) - Trust(agent, t, s)
       IN IF v.status = "pending" /\ w.status = "fulfilled"
          THEN ds = trustIncrement /\ dt = trustIncrement
          ELSE IF v.status = "pending" /\ w.status \in {"denied", "expired"}
          THEN ds = -trustDecrement /\ dt = -trustDecrement
          ELSE \A a \in DOMAIN agent : agent'[a].trustMap = agent[a].trustMap]_vars

(* C7: when an enforcement step resolves a vector from s to t with outcome  *)
(* X, the ledger of s holds X for t right after the step, whatever it held  *)
(* before.                                                                  *)
C7_LedgerFollowsResolution ==
  [][IsEnforceStep =>
       LET v == obligationVectors[pc]
           w == obligationVectors'[pc]
       IN (v.status = "pending" /\ w.status # "pending")
          => /\ v.target \in DOMAIN agent'[v.source].relationalLedger
             /\ agent'[v.source].relationalLedger[v.target] = w.status]_vars

(* a later obligation to the same target resolved differently and its       *)
(* outcome replaced the entry                                               *)
C7_Witness ==
  \E a \in DOMAIN agent :
    /\ Len(issued[a]) >= 2
    /\ LET n == Len(issued[a])
       IN /\ issued[a][n].to = issued[a][n - 1].to
          /\ issued[a][n].status # issued[a][n - 1].status
          /\ issued[a][n].to \in DOMAIN agent[a].relationalLedger
          /\ agent[a].relationalLedger[issued[a][n].to] = issued[a][n].status

(* C8 as claimed: obligationAttempts is the number of the agent's           *)
(* obligations resolved fulfilled or denied, obligationSuccesses the number *)
(* resolved fulfilled, and successes never exceed attempts.                 *)
C8_Claimed ==
  \A a \in DOMAIN agent :
    /\ agent[a].obligationAttempts = CountOutcomes(a, {"fulfilled", "denied"})
    /\ agent[a].obligationSuccesses = CountOutcomes(a, {"fulfilled"})
    /\ agent[a].obligationSuccesses <= agent[a].obligationAttempts

(* C9: an enforcement step on a pending vector whose arrival signal is not  *)
(* raised adds one to its age; it expires the vector when the age passes    *)
(* maxAge, and otherwise, the signal still not raised at the gate, leaves   *)
(* it pending.                                                              *)
C9_GatedStillAges ==
  [][IsEnforceStep =>
       LET v == obligationVectors[pc]
           w == obligationVectors'[pc]
       IN (v.status = "pending" /\ v.animT < animOne)
          => /\ (v.age + 1 > v.maxAge =>
                   w.status = "expired" /\ w.age = v.age + 1)
             /\ (v.age + 1 <= v.maxAge /\ ~ArrivedAtGate(v) =>
                   w.status = "pending" /\ w.age = v.age + 1)]_vars

(* a vector expired before it arrived, after a step that left it pending *)
C9_Witness ==
  \E i \in DOMAIN obligationVectors :
    /\ obligationVectors[i].status = "expired"
    /\ obligationVectors[i].animT < animOne
    /\ obligationVectors[i].age >= 2

(* C10 as claimed: no enforcement step ends in a fault. *)
C10_Claimed == ~fault

(* C11 as claimed: the population never exceeds the cap factor times the   *)
(* number of agents the current run was initialized with, also after the   *)
(* configuration was changed while the run is in progress.                 *)
C11_Claimed == Len(agents) <= populationCapFactor * initialCount

(* the cap of the run in progress *)
RunCap == populationCapFactor * initialCount

(* C12, amended: with every reproduction draw succeeding, the population   *)
(* at the end of a generation is the smaller of the cap and twice the      *)
(* number s of agents that survived the generation's death step (s itself  *)
(* when s has reached the cap): it never exceeds the cap, and it is the    *)
(* cap exactly when at least half the cap survived.                        *)
C12_SurvivorsDouble ==
  [][generation' = generation + 1 =>
       LET s == Cardinality(Range(agents) \cap Range(agents'))
       IN /\ Len(agents') = IF s >= RunCap THEN s ELSE Min(2 * s, RunCap)
          /\ Len(agents') <= RunCap
          /\ (Len(agents') = RunCap <=> 2 * s >= RunCap)]_vars

(* the population is at the cap after agents that died were replaced *)
C12_Witness ==
  /\ SIM_CONFIG.reproductionChance = reproSliderMax
  /\ generation >= 2
  /\ Len(agents) = RunCap
  /\ globalAgentIndex > RunCap

(* C12 as claimed: once the generations of the run have passed, the        *)
(* population is exactly the cap.                                          *)
C12_Claimed ==
  (SIM_CONFIG.reproductionChance = reproSliderMax /\ generation >= MaxPopGenerations)
    => Len(agents) = RunCap

(* the agents of group g *)
GroupOf(ag, ids, g) == {a \in ids : ag[a].affiliation = g}

(* twice the trust the agents ids of groups g and h have in each other,    *)
(* both directions pooled, is below count times twice the threshold        *)
PooledBelowThreshold(ag, ids, g, h) ==
  LET dir == (GroupOf(ag, ids, g) \X GroupOf(ag, ids, h))
               \cup (GroupOf(ag, ids, h) \X GroupOf(ag, ids, g))
      t == [e \in dir |-> Trust(ag, e[1], e[2])]
  IN 2 * SumOver(dir, t) < hostileThreshold2 * Cardinality(dir)

Hostile(g, h) == HostileKey(g, h) \in hostilePairs

C13_Recorded ==
  generation' = generation + 1 =>
    LET ids == Range(agents) \cap Range(agents')
    IN \A a, b \in ids :
         (/\ agent'[a].affiliation # agent'[b].affiliation
          /\ PooledBelowThreshold(agent', ids, agent'[a].affiliation,
                                  agent'[b].affiliation))
           => HostileKey(agent'[a].affiliation, agent'[b].affiliation)
                \in hostilePairs'

C13_Kept ==
  generation' = generation =>
    /\ hostilePairs' = hostilePairs
    /\ \A a \in DOMAIN agent : agent'[a].affiliation = agent[a].affiliation

C13_NotGenerated ==
  generation' = generation + 1 =>
    \A i \in DOMAIN obligationVectors' :
      LET v == obligationVectors'[i]
      IN ~Hostile(agent[v.source].affiliation, agent[v.target].affiliation)

(* C13: the pairs of groups whose pooled average trust is below the        *)
(* hostility threshold when group dynamics is evaluated are recorded as    *)
(* hostile; the record and the affiliations stay as they are until the     *)
(* next generation; and no vector generated then has a source and a target *)
(* whose affiliations are a recorded pair.                                 *)
C13_HostileGroupsGetNoVector ==
  [][C13_Recorded /\ C13_Kept /\ C13_NotGenerated]_vars

(* generation 2 has just begun: the two agents were in different groups    *)
(* after generation 1, stand within the proximity threshold, and no vector *)
(* was generated                                                           *)
C13_Witness ==
  /\ generation = 2 /\ pc = 0 /\ generationTimer = 0
  /\ obligationVectors = <<>>
  /\ \E i, j \in DOMAIN agentLog :
       /\ agentLog[i].generation = 1 /\ agentLog[j].generation = 1
       /\ agentLog[i].affiliation # agentLog[j].affiliation
       /\ {agentLog[i].id, agentLog[j].id} \subseteq Range(agents)
       /\ Dist(agent[agentLog[i].id], agent[agentLog[j].id]) < proximityThreshold

GroupNames == Range(SortedGroupNames)

Reverse(seq) == [i \in 1..Len(seq) |-> seq[Len(seq) + 1 - i]]

(* C14: hostility does not depend on order: a pair of group labels tests   *)
(* hostile in one order iff it does in the other; group dynamics records   *)
(* the same pairs when it meets the groups in the opposite order; and      *)
(* generation drops b as target of a iff it drops a as target of b.        *)
C14_HostilityOrderIndependent ==
  /\ \A g, h \in GroupNames : Hostile(g, h) <=> Hostile(h, g)
  /\ updateGroupDynamics(Reverse(agents), agent).hostilePairs
       = updateGroupDynamics(agents, agent).hostilePairs
  /\ \A a, b \in Range(agents) :
       (b \in Nearby(agents, agent, a, hostilePairs))
         <=> (a \in Nearby(agents, agent, b, hostilePairs))

(* a pair is recorded whose groups were met in the order opposite to the   *)
(* sorted one, and the two agents stand within the proximity threshold     *)
C14_Witness ==
  /\ Len(agents) = 2
  /\ agent[agents[1]].affiliation = "pref_legal"
  /\ agent[agents[2]].affiliation = "pref_care"
  /\ hostilePairs = {"pref_care|pref_legal"}
  /\ Dist(agent[agents[1]], agent[agents[2]]) < proximityThreshold

(* the scenario group the acknowledgment pattern of a over the norms nts   *)
(* stands for                                                              *)
PatternScenario(a, nts) ==
  LET acked == {n \in Range(nts) : acknowledgeFn(n, a)}
  IN IF acked = Range(nts) THEN "utopian"
     ELSE IF acked = {} THEN "collapsed"
     ELSE IF acked = {"legal"} THEN "authoritarian"
     ELSE IF acked = {"care"} THEN "allCare"
     ELSE "pluralist"

(* C15 as claimed: after the scenario classification of a generation the   *)
(* scenarioGroup of every classified agent is the one its acknowledgment   *)
(* pattern over the registered norms stands for, also after norms were     *)
(* added at runtime.                                                       *)
C15_Claimed ==
  [][generation' = generation + 1 =>
       \A a \in Range(agents) \cap Range(agents') :
         agent'[a].scenarioGroup = PatternScenario(agent'[a], normTypes')]_vars

(* C16 as claimed: registering under an identifier that is already in the  *)
(* registry changes nothing: the definition stored for every identifier is *)
(* retained and the set of identifiers stays as it is.                     *)
C16_Claimed ==
  [][(normRegistry' # normRegistry /\ DOMAIN normRegistry' = DOMAIN normRegistry)
       => \A n \in DOMAIN normRegistry : normRegistry'[n] = normRegistry[n]]_vars

(* C17: in every record of the metrics log fulfillmentRate and avgRI (the  *)
(* relational integrity) lie between 0 and 1 (100 percent), totalFulfilled *)
(* exceeds neither denominator, and a ratio whose denominator is 0 is 0.   *)
C17_RatiosBounded ==
  \A i \in DOMAIN log :
    LET e == log[i]
        resolved == e.totalFulfilled + e.totalDenied + e.totalExpired
    IN /\ e.fulfillmentRate \in 0..100
       /\ e.avgRI \in 0..100
       /\ e.totalFulfilled <= e.totalObligationsIssued
       /\ e.totalFulfilled <= resolved
       /\ (e.totalObligationsIssued = 0 => e.fulfillmentRate = 0)
       /\ (resolved = 0 => e.avgRI = 0)

(* the log holds the record of a generation with fulfilled obligations and *)
(* the record of an empty population                                       *)
C17_Witness ==
  /\ \E i \in DOMAIN log : log[i].totalFulfilled > 0 /\ log[i].fulfillmentRate > 0
  /\ \E i \in DOMAIN log : log[i].totalObligationsIssued = 0
  /\ generation >= 1

(* a step that resets the run: startBatch, or the hand-over to the next    *)
(* run of a batch                                                          *)
IsReset ==
  \/ ~batchMode /\ batchMode'
  \/ batchMode' /\ batchIndex' # batchIndex

(* C18: within a run the metrics log holds one record per generation:      *)
(* after generation g it has g + 1 records, the record at position i + 1   *)
(* carries generation i, and a step that does not reset the run leaves     *)
(* every record already appended where and as it was.                      *)
C18_LogAppendOnly ==
  /\ [](/\ Len(log) = generation + 1
        /\ \A i \in DOMAIN log : log[i].generation = i - 1)
  /\ [][~IsReset => /\ Len(log') >= Len(log)
                    /\ SubSeq(log', 1, Len(log)) = log]_vars

(* the second run of a batch has logged its second generation *)
C18_Witness ==
  /\ batchMode /\ batchIndex = 1
  /\ generation = 1
  /\ Len(log) = 2

(* C19 as claimed: when a run of a batch begins, generation is 0, the      *)
(* agent and obligation logs are empty, the metrics log holds the record   *)
(* of generation 0 only, and the population is exactly the configured      *)
(* number of agents, all created by the reset, with empty ledgers and      *)
(* trust maps.                                                             *)
C19_Claimed ==
  [][IsReset =>
       /\ generation' = 0
       /\ agentLog' = <<>>
       /\ obligationLog' = <<>>
       /\ Len(log') = 1
       /\ Len(agents') = SIM_CONFIG.numAgents
       /\ \A a \in Range(agents') :
            /\ a >= globalAgentIndex
            /\ agent'[a].relationalLedger = EmptyMap
            /\ agent'[a].trustMap = EmptyMap]_vars

(* the runs of the batch that have the configuration cfg *)
RunsWith(cfg) == {k \in DOMAIN batchRunsSequence : batchRunsSequence[k] = cfg}

(* the place of a configuration in the enumeration: scenario, then combo *)
EnumerationRank(cfg) ==
  LET s == CHOOSE i \in DOMAIN SCENARIO_NAMES : SCENARIO_NAMES[i] = cfg.scenario
      c == CHOOSE i \in DOMAIN combos : combos[i] = cfg.combo
  IN (s - 1) * Len(combos) + c

C20_Plan ==
  batchMode =>
    /\ batchTotalRuns = Len(SCENARIO_NAMES) * 3 * reps
    /\ Len(batchRunsSequence) = batchTotalRuns
    /\ \A i \in DOMAIN SCENARIO_NAMES : \A j \in DOMAIN combos :
         Cardinality(RunsWith([scenario |-> SCENARIO_NAMES[i],
                               combo |-> combos[j]])) = reps
    /\ \A k, l \in DOMAIN batchRunsSequence :
         k < l => EnumerationRank(batchRunsSequence[k])
                    <= EnumerationRank(batchRunsSequence[l])
    /\ batchIndex < batchTotalRuns
    /\ generation < batchGenerations
    /\ scenario = batchRunsSequence[batchIndex + 1].scenario
    /\ enableMoralRepair = batchRunsSequence[batchIndex + 1].combo.enableMoralRepair

(* the step ends a frame whose generation timer ran out *)
GenerationCompleted == pc # 0 /\ pc' = 0 /\ generationTimer' = 0

C20_Step ==
  /\ (~batchMode /\ batchMode') => (batchIndex' = 0 /\ generation' = 0)
  /\ batchMode =>
       /\ batchIndex' \in {batchIndex, batchIndex + 1}
       /\ batchIndex' = batchIndex + 1
            <=> (generation + 1 = batchGenerations /\ GenerationCompleted)
       /\ batchIndex' = batchIndex + 1 =>
            IF batchIndex' < batchTotalRuns
            THEN batchMode' /\ generation' = 0
            ELSE ~batchMode' /\ ~running' /\ ~validationMode'
       /\ batchIndex' = batchIndex =>
            /\ batchMode'
            /\ generation' = IF GenerationCompleted THEN generation + 1
                             ELSE generation
       /\ UNCHANGED <<batchTotalRuns, batchGenerations, batchRunsSequence, reps>>

C21_Claimed == initialCount > 0 /\ SIM_CONFIG.numAgents > 0

(* the metrics as the ledger of a gives them *)
DerivedConflict(a) == MapCount(a.relationalLedger, "denied")

DerivedDebt(a) ==
  MapCount(a.relationalLedger, "denied") + MapCount(a.relationalLedger, "expired")

(* the death rule reads the agents as the update loop of the frame left    *)
(* them, with the ledgers the frame's enforcement left                     *)
C22_DeathRead ==
  LET read == UpdatedAgents([x \in DOMAIN agent |-> agent[x].pos])
  IN \A a \in Range(agents) : read[a].internalConflict = DerivedConflict(agent[a])

(* the rows the generation adds to the agent log: the ledgers are not      *)
(* written between the death rule and the capture                          *)
C22_LogRead ==
  \A i \in DOMAIN agentLog' :
    agentLog'[i].generation = generation' /\ i > Len(agentLog) =>
      /\ agentLog'[i].conflict = DerivedConflict(agent[agentLog'[i].id])
      /\ agentLog'[i].debt = DerivedDebt(agent[agentLog'[i].id])

(* when as many agents were born as there are survivors, every survivor is *)
(* a parent, read as reproduction found it                                 *)
C22_MutationRead ==
  LET surv == Range(agents) \cap Range(agents')
      kids == Range(agents') \ Range(agents)
  IN Cardinality(kids) = Cardinality(surv) =>
       \A p \in surv : agent'[p].internalConflict = DerivedConflict(agent'[p])

(* C22 as claimed: whenever internalConflict or contradictionDebt is read  *)
(* at a generation boundary, by the death rule, by the agent-log capture   *)
(* or by the mutation rate of reproduction, it is the value the agent's    *)
(* ledger gives at that moment: the number of denied entries, and the      *)
(* number of denied or expired entries.                                    *)
C22_Claimed ==
  [][generation' = generation + 1 =>
       C22_DeathRead /\ C22_LogRead /\ C22_MutationRead]_vars

(* the ledger entries <<agent, target>> whose status the step changes *)
Turned ==
  {e \in (Range(agents) \cap Range(agents')) \X DOMAIN agent :
     /\ e[2] \in DOMAIN agent[e[1]].relationalLedger
     /\ e[2] \in DOMAIN agent'[e[1]].relationalLedger
     /\ agent'[e[1]].relationalLedger[e[2]] # agent[e[1]].relationalLedger[e[2]]}

(* the entries the step appends to the obligation log *)
Appended == SubSeq(obligationLog', Len(obligationLog) + 1, Len(obligationLog'))

C23_AtBoundary ==
  generation' = generation + 1 =>
    /\ \A a \in Range(agents) \cap Range(agents') :
         DOMAIN agent'[a].relationalLedger = DOMAIN agent[a].relationalLedger
    /\ \A e \in Turned :
         /\ enableMoralRepair'
         /\ agent[e[1]].relationalLedger[e[2]] \in {"denied", "expired"}
         /\ agent'[e[1]].relationalLedger[e[2]] = "repaired"
    /\ Len(obligationLog') >= Len(obligationLog)
    /\ SubSeq(obligationLog', 1, Len(obligationLog)) = obligationLog
    /\ Len(Appended) = Cardinality(Turned)
    /\ \A e \in Turned :
         \E i \in DOMAIN Appended :
           Appended[i] = LogEntry("repaired", "n/a", e[1], e[2], generation')

C23_Elsewhere ==
  generation' = generation =>
    /\ \A e \in Turned : agent'[e[1]].relationalLedger[e[2]] # "repaired"
    /\ \A a \in DOMAIN agent : \A t \in DOMAIN agent'[a].relationalLedger :
         agent'[a].relationalLedger[t] = "repaired"
           => t \in DOMAIN agent[a].relationalLedger
    /\ Len(obligationLog') >= Len(obligationLog) =>
         \A i \in DOMAIN Appended : Appended[i].status # "repaired"

(* C23: moral repair acts only at a generation boundary and only when the  *)
(* feature is enabled; there it turns only denied or expired ledger        *)
(* entries, into repaired, and appends one log entry with status repaired  *)
(* and norm 'n/a' for each entry it turned; fulfilled and repaired entries *)
(* stay as they are; no other step makes an entry repaired or logs a       *)
(* repair.                                                                 *)
C23_RepairOnlyDeniedOrExpired == [][C23_AtBoundary /\ C23_Elsewhere]_vars

(* a generation has ended with the feature on: an entry was turned and     *)
(* logged                                                                  *)
C23_Witness ==
  /\ generation = 1 /\ enableMoralRepair
  /\ \E a \in Range(agents) : \E t \in DOMAIN agent[a].relationalLedger :
       /\ agent[a].relationalLedger[t] = "repaired"
       /\ obligationLog[Len(obligationLog)] = LogEntry("repaired", "n/a", a, t, 1)

(* a generation has ended with the feature off: a denied entry is still    *)
(* denied                                                                  *)
C23_WitnessOff ==
  /\ generation = 1 /\ ~enableMoralRepair /\ generationTimer = 0 /\ pc = 0
  /\ \E a \in Range(agents) : \E t \in DOMAIN agent[a].relationalLedger :
       agent[a].relationalLedger[t] = "denied"

(* C24: the source and the target of every obligation vector are agents of *)
(* the current population, in every frame and at every enforcement step:   *)
(* no vector refers to an agent that died or that a reset discarded.       *)
C24_VectorsReferToLiveAgents ==
  \A i \in DOMAIN obligationVectors :
    /\ obligationVectors[i].source \in Range(agents)
    /\ obligationVectors[i].target \in Range(agents)
    /\ {obligationVectors[i].source, obligationVectors[i].target} \subseteq DOMAIN agent

(* a vector is being enforced between two agents of which one was born in  *)
(* the run, after an agent the run began with has died                     *)
C24_Witness ==
  /\ pc = 1 /\ Len(obligationVectors) = 1
  /\ generation >= 2
  /\ \E a \in Range(agents) :
       /\ agent[a].birthGeneration >= 1
       /\ a \in {obligationVectors[1].source, obligationVectors[1].target}
  /\ \E d \in 0..(numAgents - 1) : d \notin Range(agents)

(* the agents that live through the step, in array order, and those born   *)
Survivors == SelectSeq(agents, LAMBDA a : a \in Range(agents'))

Newborn == Range(agents') \ Range(agents)

(* the number of ledger entries with status st the survivors had when the  *)
(* step began                                                              *)
LedgerCount(st) ==
  SumOver(Range(Survivors),
          [a \in Range(Survivors) |-> MapCount(agent[a].relationalLedger, st)])

(* death comes first and reproduction last: the survivors keep their order *)
(* and the newborn follow them                                             *)
C25_DeathFirstBirthLast ==
  /\ SubSeq(agents', 1, Len(Survivors)) = Survivors
  /\ \A k \in Newborn :
       /\ k >= globalAgentIndex
       /\ agent'[k].birthGeneration = generation'
       /\ agent'[k].relationalLedger = EmptyMap
       /\ \E q \in Range(Survivors) :
            /\ agent'[k].affiliation = agent'[q].affiliation
            /\ agent'[k].scenarioGroup = agent'[q].scenarioGroup

(* regeneration comes after death and before the affiliations and the      *)
(* hostile pairs are updated; the vectors have not been enforced           *)
C25_RegenerationSecond ==
  \A i \in DOMAIN obligationVectors' :
    LET v == obligationVectors'[i]
    IN /\ v.status = "pending" /\ v.age = 0 /\ v.animT = 0 /\ v.logged = 0
       /\ v.born = generation'
       /\ {v.source, v.target} \subseteq Range(Survivors)
       /\ HostileKey(agent[v.source].affiliation, agent[v.target].affiliation)
            \notin hostilePairs

(* the capture comes after drift, affiliation and group dynamics and       *)
(* before repair and reproduction: one row per survivor, with the          *)
(* preference and groups the step leaves and the metrics of the ledger     *)
(* before repair                                                           *)
C25_CaptureAfterGroups ==
  /\ Len(agentLog') = Len(agentLog) + Len(Survivors)
  /\ \A i \in 1..Len(Survivors) :
       LET row == agentLog'[Len(agentLog) + i]
           a == Survivors[i]
       IN /\ row.id = a /\ row.generation = generation'
          /\ row.normPref = agent'[a].normPreference
          /\ row.scenarioGroup = agent'[a].scenarioGroup
          /\ row.affiliation = agent'[a].affiliation
          /\ row.conflict = DerivedConflict(agent[a])
          /\ row.debt = DerivedDebt(agent[a])

(* the metrics record comes after the capture and before repair and        *)
(* reproduction: it counts the survivors' ledgers as they were, and the    *)
(* groups of the survivors                                                 *)
C25_MetricsBeforeRepair ==
  /\ Len(log') = Len(log) + 1
  /\ SubSeq(log', 1, Len(log)) = log
  /\ LET rec == log'[Len(log')]
     IN /\ rec.generation = generation'
        /\ rec.totalDenied = LedgerCount("denied")
        /\ rec.totalExpired = LedgerCount("expired")
        /\ rec.totalRepaired = LedgerCount("repaired")
        /\ rec.totalFulfilled = LedgerCount("fulfilled")
        /\ rec.emergentNorms
             = Cardinality({agent'[a].affiliation : a \in Range(Survivors)})

(* nothing is enforced within the boundary: the obligation log grows by    *)
(* repairs only                                                            *)
C25_NoEnforcementBetween ==
  /\ Len(obligationLog') >= Len(obligationLog)
  /\ SubSeq(obligationLog', 1, Len(obligationLog)) = obligationLog
  /\ \A i \in (Len(obligationLog) + 1)..Len(obligationLog') :
       /\ obligationLog'[i].status = "repaired"
       /\ obligationLog'[i].generation = generation'

Eligible(pos, aff, s, t) ==
  /\ s # t
  /\ Abs(pos[s].pos - pos[t].pos) < proximityThreshold
  /\ HostileKey(aff[s].affiliation, aff[t].affiliation) \notin hostilePairs

Fresh(v) == v.status = "pending" /\ v.age = 0 /\ v.animT = 0 /\ v.resolvedAt = -1

(* what holds of the vectors in every state *)
C26_Always ==
  /\ Len(obligationVectors)
       <= Min(Len(agents) * countMultiplier, SIM_CONFIG.maxVectors)
  /\ Len(agents) < 2 => obligationVectors = <<>>
  /\ \A i \in DOMAIN obligationVectors :
       /\ obligationVectors[i].source # obligationVectors[i].target
       /\ {obligationVectors[i].source, obligationVectors[i].target}
            \subseteq Range(agents)
  /\ frameCount = 0 =>
       \A i \in DOMAIN obligationVectors :
         /\ Fresh(obligationVectors[i])
         /\ Eligible(agent, agent, obligationVectors[i].source,
                     obligationVectors[i].target)

(* the regeneration of a generation boundary: it works on the survivors,   *)
(* where the frame's update left them, with the groups they had            *)
C26_AtBoundary ==
  generation' = generation + 1 =>
    /\ Len(obligationVectors')
         <= Min(Len(Survivors) * countMultiplier, SIM_CONFIG.maxVectors)
    /\ Len(Survivors) < 2 => obligationVectors' = <<>>
    /\ \A i \in DOMAIN obligationVectors' :
         LET v == obligationVectors'[i]
         IN /\ Fresh(v) /\ v.born = generation'
            /\ {v.source, v.target} \subseteq Range(Survivors)
            /\ Eligible(agent', agent, v.source, v.target)

(* C26: after every regeneration of the obligations, at setup and at each  *)
(* generation boundary, the previous vectors are gone and every vector is  *)
(* pending with age 0, from a source to a different target, both in the    *)
(* population; there are at most min(population x countMultiplier,         *)
(* maxVectors) of them, none when fewer than two agents are left, and      *)
(* every one goes to a target that was eligible for its source, so a draw  *)
(* without eligible target leaves no vector.                               *)
C26_RegenerationFresh == []C26_Always /\ [][C26_AtBoundary]_vars

(* a vector of the first generation was resolved and has been replaced by  *)
(* a pending one at the boundary of the second                             *)
C26_Witness ==
  /\ generation = 2 /\ pc = 0 /\ generationTimer = 0
  /\ \E e \in Range(obligationLog) : e.generation = 1 /\ e.status # "repaired"
  /\ Len(obligationVectors) = 1
  /\ obligationVectors[1].born = 2
  /\ Fresh(obligationVectors[1])

(* two agents are left and the boundary has produced no vector: they stand *)
(* apart or their groups are hostile                                       *)
C26_WitnessSkipped ==
  /\ generation >= 1 /\ pc = 0 /\ generationTimer = 0
  /\ Len(agents) = 2
  /\ obligationVectors = <<>>

(* the cap the reproduction guard compares with *)
CapInEffect == SIM_CONFIG.numAgents * populationCapFactor

(* the ways to give every newborn a parent of its own among the survivors, *)
(* from whom it has its scenario group and its affiliation                 *)
Parentages ==
  {f \in [Newborn -> Range(Survivors)] :
     /\ \A k, l \in Newborn : k # l => f[k] # f[l]
     /\ \A k \in Newborn :
          /\ agent'[k].scenarioGroup = agent'[f[k]].scenarioGroup
          /\ agent'[k].affiliation = agent'[f[k]].affiliation}

(* C27: in the reproduction of a generation every child has a parent of    *)
(* its own among the agents that were alive before it, no child is made    *)
(* once population plus offspring have reached the cap, and every child    *)
(* has an id never used before, the current generation as birthGeneration, *)
(* its parent's scenarioGroup and affiliation, and an empty ledger and     *)
(* trust map.                                                              *)
C27_ReproductionOncePerParent ==
  [][generation' = generation + 1 =>
       /\ Parentages # {}
       /\ Newborn # {} => Len(agents') <= CapInEffect
       /\ globalAgentIndex' = globalAgentIndex + Cardinality(Newborn)
       /\ \A k \in Newborn :
            /\ k >= globalAgentIndex /\ k < globalAgentIndex'
            /\ agent'[k].birthGeneration = generation'
            /\ agent'[k].relationalLedger = EmptyMap
            /\ agent'[k].trustMap = EmptyMap]_vars

(* three agents of two groups lived through the boundary and the cap left  *)
(* room for one child, which carries one of the groups                     *)
C27_Witness ==
  /\ generation >= 2 /\ pc = 0 /\ generationTimer = 0
  /\ Len(agents) = CapInEffect
  /\ Cardinality({a \in Range(agents) : agent[a].birthGeneration = generation}) = 1
  /\ Cardinality({agent[a].affiliation : a \in Range(agents)}) = 2


(* ---------------- reset between generations of two groups ------------- *)
(* the two-group runs, with the Reset button pressed at most once: the    *)
(* new agents are again one of each preference                             *)
MaxRestartFrames == 4

GroupReset ==
  /\ pc = 0
  /\ globalAgentIndex + Created(SIM_CONFIG.numAgents) <= VecIdBound
  /\ onResetWith({<<{"legal", "care"}, {"legal"}>>}, GroupPrefs)

RestartDrawBegin == frameCount < MaxRestartFrames /\ BeginFrame

RestartNext ==
  \/ RestartDrawBegin
  \/ EnforceStep
  \/ DrawEndTick
  \/ GroupDrawEndEvolve
  \/ GroupReset

SpecRestart == GroupInit /\ [][RestartNext]_vars

(* ---------------- a long run ------------------------------------------ *)
(* one agent and no vectors, for as many generations as the old-age boost  *)
(* needs to reach certainty; OldIdBound caps the births                    *)
OldAgents == 1
MaxOldGenerations == 25
OldIdBound == 2

OldInit ==
  Setup([numAgents |-> OldAgents, reproductionChance |-> reproductionChance,
         maxVectors |-> 0],
        {200}, {<<{"legal"}>>}, InitPrefs)

OldDrawBegin == generation < MaxOldGenerations /\ BeginFrame

OldDrawEndEvolve ==
  /\ generation < MaxOldGenerations
  /\ EndFrameEvolve(OldIdBound)

OldNext ==
  \/ OldDrawBegin
  \/ DrawEndTick
  \/ OldDrawEndEvolve

SpecOldAge == OldInit /\ [][OldNext]_vars

(* ---------------- pause ------------------------------------------------ *)
(* onPauseResume *)
onPauseResume ==
  /\ isPaused' = ~isPaused
  /\ running' = isPaused
  /\ UNCHANGED <<simVars, normVars, validationMode, setupVars, batchVars,
                 frameCount, pc, fault>>

PauseResume == pc = 0 /\ onPauseResume

(* draw() while paused in rendering mode: the vectors are displayed, which *)
(* steps their animation, and the frame returns                            *)
DrawPaused ==
  /\ pc = 0
  /\ frameCount < MaxRestartFrames
  /\ ~validationMode /\ isPaused
  /\ frameCount' = frameCount + 1
  /\ obligationVectors' = [i \in DOMAIN obligationVectors |->
                             display(obligationVectors[i], frameCount + 1)]
  /\ UNCHANGED <<agents, agent, globalAgentIndex, obligationLog, generation,
                 generationTimer, issued, hostilePairs, log, agentLog, falsifyFlags,
                 initialCount, normVars, modeVars, setupVars, batchVars, pc, fault>>

PauseNext ==
  \/ RestartDrawBegin
  \/ DrawPaused
  \/ EnforceStep
  \/ DrawEndTick
  \/ GroupDrawEndEvolve
  \/ AdvancedChange
  \/ PauseResume
  \/ VecReset

SpecPause == VecInit /\ [][PauseNext]_vars

(* ---------------- a population with trust ------------------------------ *)
(* The run starts from a population whose trust maps are as earlier        *)
(* enforcement can have left them: SocAgents agents, the first two of      *)
(* preference legal, the last two care; every unordered pair of agents     *)
(* either has no trust entry or the same score in both directions          *)
(* (bookResolution and expire write both ends); trustMap keys were         *)
(* inserted in ascending or in descending order of id.  No vectors are     *)
(* issued, so the trust stays as drawn until the generation boundary.      *)
SocAgents == 4
MaxSocGenerations == 1
SocPrefs == <<"legal", "legal", "care", "care">>
LinkValues == {1, 4, 9}
SocPairs(n) == {e \in (0..(n - 1)) \X (0..(n - 1)) : e[1] < e[2]}

(* the link of a and b in the drawn table; 0: no trust entry *)
LinkOf(links, a, b) == IF a < b THEN links[<<a, b>>] ELSE links[<<b, a>>]

(* the ids 0..n-1 that a has a link with, ascending or descending *)
RECURSIVE LinkedKeys(_, _, _, _, _)
LinkedKeys(links, a, k, n, asc) ==
  IF k >= n THEN <<>>
  ELSE LET id == IF asc THEN k ELSE n - 1 - k
       IN (IF id # a /\ LinkOf(links, a, id) # 0 THEN <<id>> ELSE <<>>)
          \o LinkedKeys(links, a, k + 1, n, asc)

SocietyInit(count, prefs, nts, values) ==
  /\ SIM_CONFIG = [numAgents |-> count, reproductionChance |-> reproductionChance,
                   maxVectors |-> 0]
  /\ canvas = {200}
  /\ normTypes = nts
  /\ normRegistry = [n \in Range(nts) |-> NormSpec(n)]
  /\ scenario = "pluralist"
  /\ enableMoralRepair = TRUE
  /\ hostilePairs = {}
  /\ \E P \in initializeAgents(count, 0, 0, "pluralist", nts, {200},
                               {[i \in 1..count |-> {"legal"}]}, {prefs}) :
     \E links \in [SocPairs(count) -> {0} \cup values] :
     \E asc \in BOOLEAN :
       /\ agents = P.agents
       /\ agent = [a \in DOMAIN P.agent |->
                     LET keys == LinkedKeys(links, a, 0, count, asc)
                     IN [P.agent[a] EXCEPT
                           !.trustKeys = keys,
                           !.trustMap = [b \in Range(keys) |-> LinkOf(links, a, b)]]]
       /\ log = PushRecord(<<>>, logGeneration(P.agents, P.agent, 0))
  /\ globalAgentIndex = count
  /\ initialCount = count
  /\ generation = 0
  /\ generationTimer = 0
  /\ frameCount = 0
  /\ obligationVectors \in generateObligations(agents, agent, normTypes, 0, 0, {})
  /\ obligationLog = <<>>
  /\ agentLog = <<>>
  /\ falsifyFlags = <<>>
  /\ validationMode = FALSE
  /\ isPaused = FALSE
  /\ running = TRUE
  /\ batchMode = FALSE
  /\ batchIndex = 0
  /\ batchTotalRuns = 0
  /\ batchGenerations = 0
  /\ batchRunsSequence = <<>>
  /\ reps = 0
  /\ pc = 0
  /\ fault = FALSE
  /\ issued = [i \in 0..(count - 1) |-> <<>>]

SocInit == SocietyInit(SocAgents, SocPrefs, builtinNorms, LinkValues)

SocDrawBegin == generation < MaxSocGenerations /\ BeginFrame

SocDrawEndEvolve == EndFrameEvolve(SocAgents)

SocNext ==
  \/ SocDrawBegin
  \/ DrawEndTick
  \/ SocDrawEndEvolve

SpecSociety == SocInit /\ [][SocNext]_vars

(* ---------------- three groups ----------------------------------------- *)
(* five agents of three preferences; a pair of agents has no trust entry   *)
(* or the score 9 in both directions                                       *)
MergeAgents == 5
MergePrefs == <<"legal", "legal", "legal", "care", "epistemic">>

MergeInit ==
  SocietyInit(MergeAgents, MergePrefs, <<"legal", "care", "epistemic">>, {9})

SpecMerge == MergeInit /\ [][SocNext]_vars

(* a generation boundary was passed in this step *)
Boundary == generation' = generation + 1


(* the groups as updateAffiliations left them, and their members *)
JoinedGroups == {agent'[a].joined : a \in Range(Survivors)}
JoinedMembers(g) == {a \in Range(Survivors) : agent'[a].joined = g}

(* the directed trust links that exist between the members of g and h *)
ExistingLinks(g, h) ==
  {e \in (JoinedMembers(g) \X JoinedMembers(h)) \cup (JoinedMembers(h) \X JoinedMembers(g)) :
     e[2] \in DOMAIN agent'[e[1]].trustMap}

LinkTrust == [e \in Range(Survivors) \X Range(Survivors) |->
                MapGetOr(agent'[e[1]].trustMap, e[2], 0)]

(* C28: after a generation's group dynamics the hostile set holds exactly  *)
(* the unordered pairs of distinct current groups whose average trust over *)
(* the directed links that exist between their members is below the        *)
(* hostility threshold, and nothing else (a pair without any link is left  *)
(* open here)                                                              *)
C28_Claimed ==
  [][Boundary =>
       /\ hostilePairs' \subseteq
            {HostileKey(g, h) : <<g, h>> \in {e \in JoinedGroups \X JoinedGroups : e[1] # e[2]}}
       /\ \A g, h \in JoinedGroups :
            (g # h /\ ExistingLinks(g, h) # {}) =>
              (HostileKey(g, h) \in hostilePairs'
                 <=> 2 * SumOver(ExistingLinks(g, h), LinkTrust)
                       < hostileThreshold2 * Cardinality(ExistingLinks(g, h)))]_vars


(* the place of id x in the sequence q *)
PlaceIn(q, x) == CHOOSE i \in DOMAIN q : q[i] = x

(* the affiliation of neighbour n when the k-th survivor is processed: the *)
(* agents before it have their new group, the others still the old one    *)
AffiliationSeenBy(k, n) ==
  IF PlaceIn(Survivors, n) < k THEN agent'[n].joined ELSE agent[n].affiliation

(* the trust-map neighbours of a that are still in the population *)
LivingNeighbours(a) == (DOMAIN agent[a].trustMap) \cap Range(Survivors)

(* the summed trust of the k-th survivor in the neighbours of group g *)
GroupTrust(k, g) ==
  LET a == Survivors[k]
  IN SumOver({n \in LivingNeighbours(a) : AffiliationSeenBy(k, n) = g},
             agent[a].trustMap)

(* the first place in the trust map of the k-th survivor where a living    *)
(* neighbour of group g is met                                             *)
FirstMet(k, g) ==
  LET keys == agent[Survivors[k]].trustKeys
  IN CHOOSE i \in DOMAIN keys :
       /\ keys[i] \in Range(Survivors) /\ AffiliationSeenBy(k, keys[i]) = g
       /\ \A j \in 1..(i - 1) :
            ~(keys[j] \in Range(Survivors) /\ AffiliationSeenBy(k, keys[j]) = g)

Relabelled(from, to) == \A a \in JoinedMembers(from) : agent'[a].affiliation = to

(* C30: when the pooled average trust of two groups (over the directed     *)
(* links between their members, as in C28) exceeds the merge threshold,    *)
(* the group with fewer members is relabelled into the other (with equal   *)
(* sizes one of the two into the other), and after the merges every agent  *)
(* of the merged group carries the label of the group it was merged into   *)
C30_Claimed ==
  [][Boundary =>
       \A g, h \in JoinedGroups :
         (/\ g # h
          /\ ExistingLinks(g, h) # {}
          /\ SumOver(ExistingLinks(g, h), LinkTrust)
               > mergeThreshold * Cardinality(ExistingLinks(g, h)))
         => LET sg == Cardinality(JoinedMembers(g))
                sh == Cardinality(JoinedMembers(h))
            IN \/ sg <= sh /\ Relabelled(g, h)
               \/ sh <= sg /\ Relabelled(h, g)]_vars


(* the ids given out in this step: those at or above the counter *)
Assigned == {a \in Range(agents') : a >= globalAgentIndex}

(* C31: agent ids are unique and increase in creation order for the whole  *)
(* lifetime of the page: the population lists its agents with rising ids   *)
(* below the counter, the counter never goes back, and in every step       *)
(* (creation, reproduction, reset, batch hand-over) the agents that are    *)
(* not carried over get exactly the next values of the counter, so an id,  *)
(* also that of a dead agent, is never given twice                         *)
C31_Always ==
  /\ \A i \in DOMAIN agents : agents[i] >= 0 /\ agents[i] < globalAgentIndex
  /\ \A i, j \in DOMAIN agents : i < j => agents[i] < agents[j]

C31_Step ==
  /\ globalAgentIndex' >= globalAgentIndex
  /\ Cardinality(Assigned) = globalAgentIndex' - globalAgentIndex
  /\ Range(agents') \ Assigned \subseteq Range(agents)
  /\ generation' = 0 /\ agents' # agents => Range(agents') = Assigned

C31_IdsNeverReused == []C31_Always /\ [][C31_Step]_vars

(* in a later run of a batch, a child was born after the reset, and ids    *)
(* of agents that are gone lie below the counter                           *)
C31_Witness ==
  /\ batchMode /\ batchIndex >= 1
  /\ \E a, b \in Range(agents) :
       /\ agent[a].birthGeneration = 0
       /\ agent[b].birthGeneration > 0
       /\ a >= initialCount
  /\ \E d \in 0..(globalAgentIndex - 1) : d \notin Range(agents)


(* C32: between generation boundaries no pending obligation vector joins   *)
(* two agents of the population whose current affiliations are a pair the  *)
(* hostile set currently records                                           *)
C32_Claimed ==
  \A i \in DOMAIN obligationVectors :
    LET v == obligationVectors[i]
    IN (/\ v.status = "pending"
        /\ {v.source, v.target} \subseteq Range(agents))
       => HostileKey(agent[v.source].affiliation, agent[v.target].affiliation)
            \notin hostilePairs


(* the step replaced the population by newly created agents: a reset *)
Restarted == agents' # <<>> /\ Range(agents') = Assigned

(* C33: a reset leaves no hostility behind: the obligations of generation  *)
(* 0 of the new run are not filtered by the hostile pairs of the run       *)
(* before, so when all the new agents are within reach of each other every *)
(* draw of a source finds a target and the full number of vectors is made  *)
C33_Claimed ==
  [][Restarted =>
       ((/\ Len(agents') >= 2
         /\ \A a, b \in Range(agents') :
              Dist(agent'[a], agent'[b]) < proximityThreshold)
        => Len(obligationVectors')
             = Min(Len(agents') * countMultiplier, SIM_CONFIG.maxVectors))]_vars


(* the groups that were merged into another one in this step: their        *)
(* members no longer carry the label updateAffiliations gave them          *)
MergedAway ==
  {g \in JoinedGroups : \E a \in JoinedMembers(g) : agent'[a].affiliation # g}

(* C34: after the merges of a generation no agent carries the label of a   *)
(* group that was itself merged into another group in that generation      *)
C34_Claimed ==
  [][Boundary =>
       \A a \in Range(Survivors) : agent'[a].affiliation \notin MergedAway]_vars


(* C35: a vector leaves pending within maxAge + 1 enforcement steps of its *)
(* creation: every enforcement step of a pending vector resolves it or     *)
(* adds at least 1 to its age, which starts at 0, and a pending vector     *)
(* never has an age above maxAge; and when expirationBase plus the largest *)
(* jitter is below the generation interval, no vector is pending when the  *)
(* generation boundary discards it                                         *)
C35_Always ==
  \A i \in DOMAIN obligationVectors :
    obligationVectors[i].status = "pending"
      => obligationVectors[i].age <= obligationVectors[i].maxAge

C35_Step ==
  /\ (pc \in DOMAIN obligationVectors /\ obligationVectors[pc].status = "pending")
       => \/ obligationVectors'[pc].status # "pending"
          \/ obligationVectors'[pc].age >= obligationVectors[pc].age + 1
  /\ Boundary
       => \A i \in DOMAIN obligationVectors' :
            obligationVectors'[i].age = 0 /\ obligationVectors'[i].status = "pending"
  /\ (Boundary /\ expirationBase + expirationRandom - 1 < generationInterval)
       => \A i \in DOMAIN obligationVectors : obligationVectors[i].status # "pending"

Enforcing == pc \in DOMAIN obligationVectors

(* agent record a with the fields an enforcement may write blanked *)
SocialCore(a) ==
  [a EXCEPT !.relationalLedger = EmptyMap, !.trustMap = EmptyMap,
            !.trustKeys = <<>>, !.obligationAttempts = 0,
            !.obligationSuccesses = 0]

(* what an enforcement step leaves alone outside the enforced vector: the  *)
(* other vectors, the agents that are not its endpoints, of the endpoints  *)
(* everything but ledger, trust map and attempt/success counters, the      *)
(* population, the hostile set, the metrics log and the generation         *)
EnforceFrame ==
  LET v == obligationVectors[pc]
  IN /\ DOMAIN obligationVectors' = DOMAIN obligationVectors
     /\ \A i \in DOMAIN obligationVectors :
          i # pc => obligationVectors'[i] = obligationVectors[i]
     /\ agents' = agents
     /\ DOMAIN agent' = DOMAIN agent
     /\ \A a \in DOMAIN agent :
          IF a \in {v.source, v.target}
          THEN SocialCore(agent'[a]) = SocialCore(agent[a])
          ELSE agent'[a] = agent[a]
     /\ hostilePairs' = hostilePairs
     /\ log' = log
     /\ agentLog' = agentLog
     /\ generation' = generation

(* C36 as claimed: an enforcement step (taken without the display call, in *)
(* validation mode) changes of the enforced vector only status and age,    *)
(* and besides only ledgers, trust maps and attempt/success counters of    *)
(* its endpoints and the obligation log                                    *)
C36_Claimed ==
  [][(Enforcing /\ validationMode) =>
       /\ EnforceFrame
       /\ [obligationVectors'[pc] EXCEPT !.status = "pending", !.age = 0, !.logged = 0]
            = [obligationVectors[pc] EXCEPT !.status = "pending", !.age = 0, !.logged = 0]]_vars

(* C36, amended: of the enforced vector an enforcement step changes only   *)
(* status, age, animation progress, the frame of resolution and the        *)
(* fulfilled mark; the rest as claimed                                     *)
C36_EnforcementFrame ==
  [][Enforcing =>
       /\ EnforceFrame
       /\ [obligationVectors'[pc] EXCEPT !.status = "pending", !.age = 0, !.logged = 0,
                                         !.animT = 0, !.resolvedAt = -1,
                                         !.fulfilled = FALSE]
            = [obligationVectors[pc] EXCEPT !.status = "pending", !.age = 0, !.logged = 0,
                                           !.animT = 0, !.resolvedAt = -1,
                                           !.fulfilled = FALSE]]_vars

(* a vector has just been enforced and denied in this frame: its source    *)
(* has the ledger entry, the attempt and the lowered trust                 *)
C36_Witness ==
  /\ pc >= 2 /\ pc - 1 \in DOMAIN obligationVectors
  /\ LET v == obligationVectors[pc - 1]
     IN /\ v.status = "denied"
        /\ v.resolvedAt = frameCount
        /\ v.animT = animOne
        /\ agent[v.source].obligationAttempts >= 1
        /\ v.target \in DOMAIN agent[v.source].relationalLedger
        /\ v.source \in DOMAIN agent[v.target].trustMap
        /\ obligationLog # <<>>


(* C37: while the simulation is paused nothing advances, in rendering and  *)
(* in validation mode, also after a reset during the pause: a step from a  *)
(* paused state to a paused state enforces no vector and does not pass a   *)
(* generation boundary                                                     *)
C37_Claimed ==
  [][(isPaused /\ isPaused') =>
       /\ ~(Enforcing /\ obligationVectors'[pc] # obligationVectors[pc])
       /\ ~Boundary]_vars


(* C38: with the default death parameters an agent whose age has reached   *)
(* 24 generations is removed at that generation's death step, so no agent  *)
(* is ever older than 24 and none survives a death step at age 24 or more  *)
AgeOf(a) == generation - agent[a].birthGeneration

C38_Always == \A a \in Range(agents) : AgeOf(a) <= 24

C38_Step ==
  Boundary => \A a \in Range(agents) : AgeOf(a) >= 24 => a \notin Range(agents')

C38_CertainDeath == []C38_Always /\ [][C38_Step]_vars

(* the first agent was alive at generation 24 and is gone after the death  *)
(* step of that generation                                                 *)
C38_Witness ==
  /\ generation = 25
  /\ 0 \notin Range(agents)
  /\ \E i \in DOMAIN agentLog :
       agentLog[i].id = 0 /\ agentLog[i].generation = 24


(* C39: a falsifiability flag is recorded for an agent and a norm at a     *)
(* generation boundary only if the agent's acknowledgment of that norm     *)
(* changed since the previous boundary; acknowledgments set once, at       *)
(* creation, scenario load or inheritance, are never flagged               *)
NewFlags == {falsifyFlags'[i] : i \in (Len(falsifyFlags) + 1)..Len(falsifyFlags')}

C39_Claimed ==
  [][Boundary =>
       \A f \in NewFlags :
         /\ f.id \in DOMAIN agent
         /\ f.norm \in DOMAIN agent[f.id].settledAcks
         /\ agent[f.id].ack[f.norm] # agent[f.id].settledAcks[f.norm]]_vars

====
